---- MODULE Spec2Model ----
(***************************************************************************)
(* A model of megabot's orchestration core.                                *)
(*                                                                         *)
(*   SpecRunner   - one AgentRunner execution (the tool-call loop) fed by  *)
(*                  the Anthropic plugin, persisting into a conversation   *)
(*                  that other requests may write to as well.              *)
(*   SpecDispatch - the run-agent Inngest function (setup / execute /      *)
(*                  deliver-result) over the tasks table, with the         *)
(*                  substrate's step retries and at-least-once delivery.   *)
(*   SpecSched    - the run-scheduler cron function over scheduled_tasks.  *)
(***************************************************************************)
EXTENDS Integers, Sequences, FiniteSets, TLC

\* ------------------------------------------------------------------------
\* Bounds of the model
\* ------------------------------------------------------------------------
MaxRounds == 2
MaxToolUses == 2
MaxText == 1
MaxForeign == 1
MaxTasks == 1
MaxRuns == 2
MaxUserMessages == 1
MaxSched == 2
MaxScans == 2
MaxTime == 2
MaxStreams == 2
MaxChunks == 2

\* run-agent.ts: createFunction({ retries: 1 }).
Retries == 1

VARIABLES
    \* --- AgentRunner.stream locals and what it writes -------------------
    pc,                  \* position of the stream() generator
    round,               \* number of model calls started so far
    chunks,              \* every chunk yielded to the consumer, in order
    currentMessages,     \* stream(): currentMessages
    requests,            \* messages handed to plugin.chat, one entry per call
    fullText,            \* callLLM: fullText (sequence of text deltas)
    pendingToolCalls,    \* callLLM: pendingToolCalls
    hasToolCallsPending, \* callLLM: hasToolCallsPending
    hadError,            \* callLLM: hadError
    totalUsage,          \* stream(): totalUsage.inputTokens
    assistantBlocks,     \* processToolCalls: assistantBlocks
    toolResultBlocks,    \* processToolCalls: toolResultBlocks
    tcIndex,             \* processToolCalls: index of the for-of loop
    conversationId,      \* params.conversationId given (TRUE) or omitted
    dbMessages,          \* messages rows of the conversation, by createdAt
    \* --- Anthropic plugin -----------------------------------------------
    toolInputBuffers,    \* chat(): toolInputBuffers (open tool_use blocks)
    stopSeen,            \* the SDK stream has delivered message_delta
    nextId,              \* next tool-use id the provider hands out
    foreign,             \* rows inserted by other requests so far
    \* --- tools of the execution ------------------------------------------
    toolRegistry,        \* ToolRegistry.tools: the registered tool names
    paramsTools,         \* params.tools: the caller's allow-set
    activeToolNames,     \* stream(): activeToolNames
    offered,             \* tool definitions handed to plugin.chat, per call
    reported,            \* usage of the plugin's done chunks, per model call
    \* --- run-agent function and the tables it touches -------------------
    taskStatus,          \* tasks.status by task id ("none": no row)
    sent,                \* a megabot/agent.spawn event exists for the task
    originIdx,           \* position of the task's origin message
    runs,                \* function runs, one per delivered event
    agentConvs,          \* conversations inserted by the setup step, per task
    originRows,          \* messages rows of the originating conversation
    \* --- run-scheduler function -----------------------------------------
    now,                 \* wall clock, in minutes
    lastScanAt,          \* minute of the latest cron run
    schedRows,           \* scheduled_tasks rows by id
    scans,               \* runs of the check-due-tasks step
    outbox,              \* events accepted by inngest.send, in order
    \* --- ChatStreamManager, for one conversation id ----------------------
    streams,             \* streams.get(id): the ActiveStream registered, 0 if none
    execs,               \* every ActiveStream created, with its generator
    callbacks,           \* the callbacks handed to subscribe*, by client
    \* --- EventBus --------------------------------------------------------
    handlers,            \* handlers.get(type): the Set, in insertion order
    globalHandlers,      \* the Set of onAny handlers, in insertion order
    emitted,             \* the latest emit: event id and type, and whether
                         \* the call raised instead of returning the event
    delivered,           \* the handler invocations of the latest emit
    \* --- functions started by the scheduler's events ---------------------
    attempts,            \* runs of run-agent and run-scheduled-task, one per
                         \* delivered event of the outbox
    taskRows,            \* the rows of the tasks table, in insertion order
    \* --- library functions ----------------------------------------------
    callArgs,            \* the arguments of the call
    callResult,          \* what the call returned ("none" before it)
    \* --- PluginRegistry and its ToolRegistry ----------------------------
    pluginMap,           \* PluginRegistry.plugins, in insertion order
    toolMap,             \* ToolRegistry.tools, in insertion order
    lastCall,            \* the latest registry call and how it ended
    \* --- a browser reloading the conversation page ----------------------
    client               \* what the page has loaded and subscribed to

runnerVars == <<pc, round, chunks, currentMessages, requests, fullText,
                pendingToolCalls, hasToolCallsPending, hadError, totalUsage,
                assistantBlocks, toolResultBlocks, tcIndex, conversationId,
                dbMessages, toolInputBuffers, stopSeen, nextId, foreign,
                toolRegistry, paramsTools, activeToolNames, offered,
                reported>>

toolVars == <<toolRegistry, paramsTools, activeToolNames, offered>>

dispatchVars == <<taskStatus, sent, originIdx, runs, agentConvs, originRows>>

schedVars == <<now, lastScanAt, schedRows, scans, outbox>>

streamVars == <<streams, execs, callbacks>>

busVars == <<handlers, globalHandlers, emitted, delivered>>

bgVars == <<attempts, taskRows>>

fnVars == <<callArgs, callResult>>

regVars == <<pluginMap, toolMap, lastCall>>

libVars == <<busVars, bgVars, fnVars, regVars, client>>

vars == <<runnerVars, dispatchVars, schedVars, streamVars, libVars>>

\* ------------------------------------------------------------------------
\* Tool registry
\* ------------------------------------------------------------------------

\* Tools present in the ToolRegistry map.
RegisteredTools == toolRegistry

\* Names a model may put in a tool_use block: registered or not.
ToolNames == RegisteredTools \cup {"ghost_tool"}

\* What a tool's execute function does when invoked: return a success
\* result, return a failure result, or throw (at once, from a plugin hook, or
\* by rejecting its promise).
ToolBehaviours == {"ok", "fail", "throw"}

\* tool.execute(params, context): what comes back, or that it raised.
ToolExecute(behaviour) ==
    [raised |-> behaviour = "throw",
     success |-> behaviour = "ok",
     error |-> IF behaviour = "throw" THEN "thrown"
               ELSE IF behaviour = "fail" THEN "failed" ELSE ""]

ExecuteUncaught(name, behaviour) ==
    IF name \notin RegisteredTools
    THEN [raised |-> FALSE, success |-> FALSE, error |-> "not found"]
    ELSE ToolExecute(behaviour)

\* ToolRegistry.execute: an unknown name is a failure result; the tool runs
\* inside try, and the catch turns what it raised into a failure result with
\* the error's message.
ToolRegistryExecute(name, behaviour) ==
    IF name \notin RegisteredTools
    THEN [raised |-> FALSE, success |-> FALSE, error |-> "not found"]
    ELSE LET out == ToolExecute(behaviour)
         IN  IF out.raised
             THEN [raised |-> FALSE, success |-> FALSE, error |-> out.error]
             ELSE out

\* BASE_TOOL_NAMES: always in the active set, whatever the caller allows.
BaseToolNames ==
    {"search_tools", "get_current_time", "run_command", "read_file",
     "write_file", "list_directory", "grep", "calculate", "create_agent",
     "list_agents", "spawn_agent", "create_scheduled_task",
     "list_scheduled_tasks", "delete_scheduled_task"}

\* The queries a model may pass to search_tools, and the words longer than
\* two characters that search keeps of each.
Queries == {"", "web"}

Words(query) == IF query = "web" THEN {"web"} ELSE {}

\* The text search matches against: name, description and keywords.
Haystack(tool) ==
    IF tool = "web_fetch" THEN {"web", "fetch"}
    ELSE IF tool = "search_tools" THEN {"search", "tools"}
         ELSE IF tool = "get_current_time" THEN {"current", "time"}
              ELSE {}

\* ToolRegistry.search: every tool when no word is left, else the tools
\* matched by at least one word.
SearchTools(query) ==
    IF Words(query) = {} THEN RegisteredTools
    ELSE {t \in RegisteredTools : Words(query) \cap Haystack(t) # {}}

\* if (query): the empty string is falsy.
Truthy(query) == query # ""

\* executeTool's last step: a successful search_tools call with a truthy
\* query adds every tool that search(query) finds to the active set.
ExpandActiveTools(active, name, args, result) ==
    IF name = "search_tools" /\ result.success /\ Truthy(args)
    THEN active \cup SearchTools(args) ELSE active

BuildAllToolDefs(active) == RegisteredTools

\* buildToolDefs: the registered tools whose names are in the active set
\* (the Anthropic plugin supports tools).
BuildToolDefs(active) == {t \in RegisteredTools : t \in active}

\* ------------------------------------------------------------------------
\* Chunks, blocks, rows
\* ------------------------------------------------------------------------

\* An LLMChunk as the consumer sees it; `round` records the model call
\* during which it was yielded.
Chunk(type, id, name, content, isError) ==
    [type |-> type, id |-> id, name |-> name, content |-> content,
     isError |-> isError, round |-> round, usage |-> 0]

\* The token counts a model call may report (input and output taken
\* together).
Usages == {1, 2}

RECURSIVE SumOf(_)
SumOf(seq) == IF seq = <<>> THEN 0 ELSE Head(seq) + SumOf(Tail(seq))

TextBlock ==
    [type |-> "text", id |-> 0, name |-> "", content |-> "text",
     isError |-> FALSE]

ToolUseBlock(tc) ==
    [type |-> "tool_use", id |-> tc.id, name |-> tc.name, content |-> "",
     isError |-> FALSE]

\* executeTool: resultContent is the data, or "Error: " and the error.
ResultContent(result) ==
    IF result.success THEN "data"
    ELSE IF result.error = "not found" THEN "Error: not found"
         ELSE IF result.error = "thrown" THEN "Error: thrown"
              ELSE "Error: failed"

ErrorContents == {"Error: not found", "Error: thrown", "Error: failed"}

IsErrorNever(result) == FALSE

\* executeTool: isError = !result.success.
IsErrorOf(result) == ~result.success

\* executeTool's return value.
ToolResultBlock(tc, result) ==
    [type |-> "tool_result", id |-> tc.id, name |-> "",
     content |-> ResultContent(result), isError |-> IsErrorOf(result)]

\* buildAssistantBlocks: optional text block, then one tool_use per call.
BuildAssistantBlocks(text, pending) ==
    (IF text # <<>> THEN <<TextBlock>> ELSE <<>>)
        \o [i \in 1..Len(pending) |-> ToolUseBlock(pending[i])]

\* persistMessage: one row appended to the conversation.
Row(role, content, toolCalls) ==
    [role |-> role, content |-> content, toolCalls |-> toolCalls]

PersistMessageTwice(rows, row) ==
    IF conversationId THEN Append(Append(rows, row), row) ELSE rows

PersistMessage(rows, row) ==
    IF conversationId THEN Append(rows, row) ELSE rows

\* The tool row's content: one summary line per result block.
ToolRowContent(blocks) ==
    [i \in 1..Len(blocks) |-> IF blocks[i].isError THEN "ERROR" ELSE "ok"]

PushPendingReplacing(pending, tc) == <<tc>>

\* callLLM's handling of tool_call_end: push onto pendingToolCalls.
PushPending(pending, tc) == Append(pending, tc)

PendingAtReversed(pending, idx) == pending[Len(pending) - idx + 1]

\* processToolCalls' for-of loop: the call executed at step idx.
PendingAt(pending, idx) == pending[idx]

\* ------------------------------------------------------------------------
\* Init
\* ------------------------------------------------------------------------
UserMessage == [role |-> "user", text |-> <<"q">>, blocks |-> <<>>]

RunnerStart(withConversation) ==
    /\ pc = "loop"
    /\ round = 0
    /\ chunks = <<>>
    /\ currentMessages = <<UserMessage>>
    /\ requests = <<>>
    /\ fullText = <<>>
    /\ pendingToolCalls = <<>>
    /\ hasToolCallsPending = FALSE
    /\ hadError = FALSE
    /\ totalUsage = 0
    /\ assistantBlocks = <<>>
    /\ toolResultBlocks = <<>>
    /\ tcIndex = 0
    /\ conversationId = withConversation
    /\ dbMessages = IF conversationId THEN <<Row("user", <<"q">>, <<>>)>>
                    ELSE <<>>
    /\ toolInputBuffers = <<>>
    /\ stopSeen = FALSE
    /\ nextId = 1
    /\ reported = <<>>
    /\ foreign = 0

\* stream(): activeToolNames = new Set([...BASE_TOOL_NAMES, ...params.tools]).
ToolsStart(registry, allowSet) ==
    /\ toolRegistry = registry
    /\ paramsTools = allowSet
    /\ activeToolNames = BaseToolNames \cup allowSet
    /\ offered = <<>>

\* One registered tool, allowed by the caller.
PlainTools == ToolsStart({"get_current_time"}, {"get_current_time"})

InitRunner == (\E c \in BOOLEAN : RunnerStart(c)) /\ PlainTools

\* The registry with the discovery tool and a tool outside the base set; the
\* caller allows any of the two, or none.
FullRegistry == {"search_tools", "get_current_time", "web_fetch"}

InitTools ==
    /\ RunnerStart(FALSE)
    /\ \E allowSet \in SUBSET {"search_tools", "web_fetch"} :
        ToolsStart(FullRegistry, allowSet)

\* ------------------------------------------------------------------------
\* Tables at start
\* ------------------------------------------------------------------------
TaskIds == 1..MaxTasks
SchedIds == 1..MaxSched

\* The agents table: scheduled tasks may name an agent that is not in it
\* (create_scheduled_task does not look the agent up).
AgentsTable == {"a1"}

NoTime == -1

\* No task dispatched yet; the originating conversation holds the user's
\* first message.
InitDispatch ==
    /\ taskStatus = [t \in TaskIds |-> "none"]
    /\ sent = [t \in TaskIds |-> FALSE]
    /\ originIdx = [t \in TaskIds |-> 0]
    /\ runs = <<>>
    /\ agentConvs = [t \in TaskIds |-> 0]
    /\ originRows = <<[role |-> "user", kind |-> "message", task |-> 0]>>

\* computeNextRun at creation (minute 0): a one-shot task runs at its date,
\* which validateSchedule wants not in the past; a recurring one a minute
\* after creation.
ComputeNextRun(schedule, type, from) ==
    IF type = "one_shot" THEN schedule ELSE from + 1

\* The cron expressions of recurring tasks: every minute, and daily at
\* nine.
Crons == {"* * * * *", "0 9 * * *"}

\* The wall clock at minute 0, when the tasks are created.
CreatedAt == [hour |-> 8, minute |-> 58]

MinuteOfDay(t) == (CreatedAt.hour * 60 + CreatedAt.minute + t) % (24 * 60)

\* Whether minute t matches the five fields of a cron expression.
CronMatches(cron, t) ==
    IF cron = "0 9 * * *" THEN MinuteOfDay(t) = 9 * 60 ELSE TRUE

\* executeCreateTask: the row a create_scheduled_task call inserts; the
\* schedule is a cron expression or, for a one-shot task, a date.
CreatedRow(type, schedule, agentId) ==
    [type |-> type, schedule |-> schedule, status |-> "active",
     agentId |-> agentId, lastRunAt |-> NoTime,
     nextRunAt |-> ComputeNextRun(schedule, type, 0)]

SchedStart(rows) ==
    /\ now = 1
    /\ lastScanAt = 0
    /\ schedRows = rows
    /\ scans = <<>>
    /\ outbox = <<>>

InitSched ==
    \E types \in [SchedIds -> {"recurring", "one_shot"}],
       dates \in [SchedIds -> 1..MaxTime],
       crons \in [SchedIds -> Crons],
       agentIds \in [SchedIds -> {"", "a1", "gone"}] :
        SchedStart([i \in SchedIds |->
            CreatedRow(types[i],
                       IF types[i] = "recurring" THEN crons[i] ELSE dates[i],
                       agentIds[i])])

\* The clients whose callbacks reach the ChatStreamManager.
Callbacks == {"c1", "c2"}

\* A callback no subscribe call has been made with yet. `received` lists the
\* chunks it was invoked with; `closed` is its response controller; `call`,
\* `target`, `targetDone` and `atCall` record the subscribe call made with
\* it: which method, the execution of the id at that moment (the one
\* started last, if it is running or its buffer is still registered),
\* whether that execution had finished, and the length of its buffer.
NewCallback ==
    [call |-> "none", received |-> <<>>, closed |-> FALSE,
     target |-> 0, targetDone |-> FALSE, atCall |-> 0]

\* A client has no request open: it made none yet, or its last one is over
\* and its callback gone. Its next request comes with a new callback.
Free(cb) == cb.call = "none"

\* new ChatStreamManager(): the streams map is empty.
InitStream ==
    /\ streams = 0
    /\ execs = <<>>
    /\ callbacks = [cb \in Callbacks |-> NewCallback]

\* A component that a specification leaves alone sits in one fixed state.
StreamIdle == InitStream

\* A new EventBus: no handler of either kind, nothing emitted.
EventTypes == {"tool.called", "llm.error"}

EventHandlers == {"h1", "h2"}

InitBus ==
    /\ handlers = [t \in EventTypes |-> <<>>]
    /\ globalHandlers = <<>>
    /\ emitted = [id |-> 0, type |-> "", raised |-> FALSE]
    /\ delivered = <<>>

BusIdle == InitBus

\* No event of the scheduler delivered yet; the tasks table is empty.
InitBackground ==
    /\ attempts = <<>>
    /\ taskRows = <<>>

BgIdle == InitBackground

\* No library call under way.
NoCall == [fn |-> "none"]

NoResult == [done |-> FALSE, value |-> <<>>]

FnIdle ==
    /\ callArgs = NoCall
    /\ callResult = NoResult

\* The registries as constructed: no plugin, no tool, no call made.
InitRegistry ==
    /\ pluginMap = <<>>
    /\ toolMap = <<>>
    /\ lastCall = [op |-> "none", raised |-> FALSE]

RegIdle == InitRegistry

\* No page has been loaded.
NoClient == [phase |-> "none", rows |-> 0, startIndex |-> 0]

ClientIdle == client = NoClient

LibIdle == BusIdle /\ BgIdle /\ FnIdle /\ RegIdle /\ ClientIdle
RunnerIdle == RunnerStart(FALSE) /\ PlainTools
SchedIdle ==
    SchedStart([i \in SchedIds |-> CreatedRow("recurring", "* * * * *", "")])

\* ------------------------------------------------------------------------
\* AgentRunner.stream / callLLM
\* ------------------------------------------------------------------------
callLocals == <<fullText, pendingToolCalls, hasToolCallsPending, hadError>>
toolLocals == <<assistantBlocks, toolResultBlocks, tcIndex>>
pluginVars == <<toolInputBuffers, stopSeen, nextId, reported>>

\* Top of the while loop: buildToolDefs, then callLLM opens plugin.chat
\* with the current history.
CallLLM ==
    /\ pc = "loop"
    /\ round < MaxRounds
    /\ round' = round + 1
    /\ requests' = Append(requests, currentMessages)
    /\ offered' = Append(offered, BuildToolDefs(activeToolNames))
    /\ fullText' = <<>>
    /\ pendingToolCalls' = <<>>
    /\ hasToolCallsPending' = FALSE
    /\ hadError' = FALSE
    /\ toolInputBuffers' = <<>>
    /\ stopSeen' = FALSE
    /\ pc' = "stream"
    /\ UNCHANGED <<chunks, currentMessages, totalUsage, toolLocals,
                   conversationId, toolRegistry, paramsTools,
                   activeToolNames, dbMessages, nextId, reported, foreign,
                   dispatchVars,
                   schedVars, streamVars, libVars>>

\* content_block_delta / text_delta: a text chunk, accumulated and yielded.
TextDelta ==
    /\ pc = "stream"
    /\ ~stopSeen
    /\ toolInputBuffers = <<>>
    /\ Cardinality({i \in DOMAIN chunks : chunks[i].type = "text"}) < MaxText
    /\ fullText' = Append(fullText, "t")
    /\ chunks' = Append(chunks, Chunk("text", 0, "", "t", FALSE))
    /\ UNCHANGED <<pc, round, currentMessages, requests, pendingToolCalls,
                   hasToolCallsPending, hadError, totalUsage, toolLocals,
                   conversationId, toolVars, dbMessages, pluginVars, foreign, dispatchVars,
                   schedVars, streamVars, libVars>>

\* content_block_start of a tool_use block: buffer it, yield tool_call_start.
ToolUseStart ==
    /\ pc = "stream"
    /\ ~stopSeen
    /\ toolInputBuffers = <<>>
    /\ nextId <= MaxToolUses
    /\ \E name \in ToolNames :
        \E args \in IF name = "search_tools" THEN Queries ELSE {"{}"} :
            /\ toolInputBuffers' =
                  <<[id |-> nextId, name |-> name, args |-> args]>>
            /\ chunks' = Append(chunks,
                  Chunk("tool_call_start", nextId, name, "", FALSE))
    /\ nextId' = nextId + 1
    /\ UNCHANGED <<pc, round, currentMessages, requests, callLocals,
                   totalUsage, toolLocals, conversationId, toolVars, dbMessages,
                   stopSeen, reported, foreign, dispatchVars,
                   schedVars, streamVars, libVars>>

\* content_block_stop of a buffered block: yield tool_call_end, which
\* callLLM pushes onto pendingToolCalls.
ToolUseStop ==
    /\ pc = "stream"
    /\ toolInputBuffers # <<>>
    /\ LET b == toolInputBuffers[1] IN
        /\ chunks' = Append(chunks,
              Chunk("tool_call_end", b.id, b.name, b.args, FALSE))
        /\ pendingToolCalls' = PushPending(pendingToolCalls, b)
    /\ toolInputBuffers' = <<>>
    /\ UNCHANGED <<pc, round, currentMessages, requests, fullText,
                   hasToolCallsPending, hadError, totalUsage, toolLocals,
                   conversationId, toolVars, dbMessages, stopSeen, nextId,
                   reported, foreign, dispatchVars,
                   schedVars, streamVars, libVars>>

StopReasons == {"tool_use", "end_turn", "max_tokens"}

\* message_delta: stop_reason tool_use yields tool_calls_pending.
MessageDelta ==
    /\ pc = "stream"
    /\ ~stopSeen
    /\ toolInputBuffers = <<>>
    /\ stopSeen' = TRUE
    /\ \E reason \in StopReasons :
        IF reason = "tool_use"
        THEN /\ chunks' = Append(chunks, Chunk("tool_calls_pending", 0, "", "", FALSE))
             /\ hasToolCallsPending' = TRUE
        ELSE /\ UNCHANGED <<chunks, hasToolCallsPending>>
    /\ UNCHANGED <<pc, round, currentMessages, requests, fullText,
                   pendingToolCalls, hadError, totalUsage, toolLocals,
                   conversationId, toolVars, dbMessages, toolInputBuffers, nextId,
                   reported, foreign, dispatchVars,
                   schedVars, streamVars, libVars>>

\* stream.finalMessage(): the plugin yields done with usage; callLLM adds
\* the usage, does not forward the chunk, and returns.
FinalMessage ==
    /\ pc = "stream"
    /\ stopSeen
    /\ \E usage \in Usages :
        /\ reported' = Append(reported, usage)
        /\ totalUsage' = totalUsage + usage
    /\ pc' = "returned"
    /\ UNCHANGED <<round, chunks, currentMessages, requests, callLocals,
                   toolLocals, conversationId, toolVars, dbMessages,
                   toolInputBuffers, stopSeen, nextId,
                   foreign, dispatchVars,
                   schedVars, streamVars, libVars>>

\* The SDK stream throws: the plugin's own catch turns it into an error
\* chunk and ends its generator normally; callLLM forwards the chunk and
\* returns with hadError still false.
StreamThrows ==
    /\ pc = "stream"
    /\ chunks' = Append(chunks, Chunk("error", 0, "", "message", FALSE))
    /\ pc' = "returned"
    /\ UNCHANGED <<round, currentMessages, requests, callLocals, totalUsage,
                   toolLocals, conversationId, toolVars, dbMessages, pluginVars,
                   foreign, dispatchVars,
                   schedVars, streamVars, libVars>>

\* plugin.chat raises into callLLM: its catch yields an error chunk and
\* sets hadError.
ChatThrows ==
    /\ pc = "stream"
    /\ chunks' = Append(chunks, Chunk("error", 0, "", "message", FALSE))
    /\ hadError' = TRUE
    /\ pc' = "returned"
    /\ UNCHANGED <<round, currentMessages, requests, fullText,
                   pendingToolCalls, hasToolCallsPending, totalUsage,
                   toolLocals, conversationId, toolVars, dbMessages, pluginVars,
                   foreign, dispatchVars,
                   schedVars, streamVars, libVars>>

\* stream(): if (hadError) break.
BreakOnError ==
    /\ pc = "returned"
    /\ hadError
    /\ pc' = "stopped"
    /\ UNCHANGED <<round, chunks, currentMessages, requests, callLocals,
                   totalUsage, toolLocals, conversationId, toolVars, dbMessages,
                   pluginVars, foreign, dispatchVars,
                   schedVars, streamVars, libVars>>

\* processToolCalls, up to the loop: build and persist the assistant row.
ProcessToolCalls ==
    /\ pc = "returned"
    /\ ~hadError
    /\ hasToolCallsPending /\ Len(pendingToolCalls) > 0
    /\ assistantBlocks' = BuildAssistantBlocks(fullText, pendingToolCalls)
    /\ dbMessages' = PersistMessage(dbMessages,
            Row("assistant",
                IF fullText # <<>> THEN fullText ELSE <<"[tool calls]">>,
                assistantBlocks'))
    /\ toolResultBlocks' = <<>>
    /\ tcIndex' = 1
    /\ pc' = "tools"
    /\ UNCHANGED <<round, chunks, currentMessages, requests, callLocals,
                   totalUsage, conversationId, toolVars, pluginVars, foreign, dispatchVars,
                   schedVars, streamVars, libVars>>

\* executeTool, first half: yield tool_executing, then await the registry.
ExecuteTool ==
    /\ pc = "tools"
    /\ tcIndex <= Len(pendingToolCalls)
    /\ LET tc == PendingAt(pendingToolCalls, tcIndex) IN
        chunks' = Append(chunks, Chunk("tool_executing", tc.id, tc.name, "", FALSE))
    /\ pc' = "toolAwait"
    /\ UNCHANGED <<round, currentMessages, requests, callLocals, totalUsage,
                   toolLocals, conversationId, toolVars, dbMessages, pluginVars,
                   foreign, dispatchVars,
                   schedVars, streamVars, libVars>>

\* executeTool, second half: the registry answers; yield tool_result,
\* expand the active tools after a search, and hand the block back to
\* processToolCalls, which pushes it. Were execute to raise, the exception
\* would leave the generator.
ToolReturns ==
    /\ pc = "toolAwait"
    /\ \E behaviour \in ToolBehaviours :
        LET tc == PendingAt(pendingToolCalls, tcIndex)
            result == ToolRegistryExecute(tc.name, behaviour)
        IN  IF result.raised
            THEN /\ pc' = "crashed"
                 /\ UNCHANGED <<chunks, toolResultBlocks, tcIndex,
                                activeToolNames>>
            ELSE /\ chunks' = Append(chunks,
                        Chunk("tool_result", tc.id, tc.name,
                              ResultContent(result), IsErrorOf(result)))
                 /\ toolResultBlocks' = Append(toolResultBlocks,
                        ToolResultBlock(tc, result))
                 /\ activeToolNames' = ExpandActiveTools(activeToolNames,
                        tc.name, tc.args, result)
                 /\ tcIndex' = tcIndex + 1
                 /\ pc' = "tools"
    /\ UNCHANGED <<round, currentMessages, requests, callLocals, totalUsage,
                   assistantBlocks, conversationId, toolRegistry,
                   paramsTools, offered, dbMessages, pluginVars,
                   foreign, dispatchVars,
                   schedVars, streamVars, libVars>>

\* processToolCalls, after the loop: persist the tool row, extend history.
FinishToolCalls ==
    /\ pc = "tools"
    /\ tcIndex > Len(pendingToolCalls)
    /\ dbMessages' = PersistMessage(dbMessages,
            Row("tool", ToolRowContent(toolResultBlocks), toolResultBlocks))
    /\ currentMessages' = currentMessages
            \o <<[role |-> "assistant", text |-> <<>>, blocks |-> assistantBlocks],
                 [role |-> "user", text |-> <<>>, blocks |-> toolResultBlocks]>>
    /\ pc' = "loop"
    /\ UNCHANGED <<round, chunks, requests, callLocals, totalUsage,
                   toolLocals, conversationId, toolVars, pluginVars, foreign, dispatchVars,
                   schedVars, streamVars, libVars>>

\* emitFinalResponse, then yield done and leave the loop.
EmitFinalResponse ==
    /\ pc = "returned"
    /\ ~hadError
    /\ ~(hasToolCallsPending /\ Len(pendingToolCalls) > 0)
    /\ dbMessages' = PersistMessage(dbMessages,
            Row("assistant",
                IF fullText # <<>> THEN fullText
                ELSE <<"[Error: no response generated]">>,
                <<>>))
    /\ chunks' = Append(chunks,
            [Chunk("done", 0, "", "", FALSE) EXCEPT !.usage = totalUsage])
    /\ pc' = "done"
    /\ UNCHANGED <<round, currentMessages, requests, callLocals, totalUsage,
                   toolLocals, conversationId, toolVars, pluginVars, foreign, dispatchVars,
                   schedVars, streamVars, libVars>>

\* ChatHandler.handle -> setupConversation for another request on the same
\* conversation: its user row is inserted whatever this execution is doing.
Handle ==
    /\ conversationId
    /\ foreign < MaxForeign
    /\ foreign' = foreign + 1
    /\ dbMessages' = Append(dbMessages, Row("user", <<"q">>, <<>>))
    /\ UNCHANGED <<pc, round, chunks, currentMessages, requests, callLocals,
                   totalUsage, toolLocals, conversationId, toolVars, pluginVars,
                   dispatchVars, schedVars, streamVars, libVars>>

NextRunner ==
    \/ CallLLM
    \/ TextDelta
    \/ ToolUseStart
    \/ ToolUseStop
    \/ MessageDelta
    \/ FinalMessage
    \/ ChatThrows
    \/ StreamThrows
    \/ BreakOnError
    \/ ProcessToolCalls
    \/ ExecuteTool
    \/ ToolReturns
    \/ FinishToolCalls
    \/ EmitFinalResponse

InitRunnerOnly == InitRunner /\ InitDispatch /\ SchedIdle /\ StreamIdle /\ LibIdle

SpecRunner == InitRunnerOnly /\ [][NextRunner]_vars

InitToolsOnly == InitTools /\ InitDispatch /\ SchedIdle /\ StreamIdle /\ LibIdle

\* One execution over a registry with discoverable tools and a caller's
\* allow-set.
SpecTools == InitToolsOnly /\ [][NextRunner]_vars

\* The same execution, with other requests writing to its conversation.
NextConversation ==
    \/ NextRunner
    \/ Handle

SpecConversation == InitRunnerOnly /\ [][NextConversation]_vars

\* ------------------------------------------------------------------------
\* run-agent: the function behind megabot/agent.spawn
\* ------------------------------------------------------------------------
RunsOf(t) == {r \in DOMAIN runs : runs[r].task = t}

LastUserRow ==
    CHOOSE i \in DOMAIN originRows :
        /\ originRows[i].role = "user"
        /\ \A j \in DOMAIN originRows :
            originRows[j].role = "user" => j <= i

\* deliver-result: user rows of the origin conversation created after the
\* origin message.
NewerUserMessages(t) ==
    {i \in DOMAIN originRows :
        originRows[i].role = "user" /\ i > originIdx[t]}

\* db.update(tasks).set({status}).where(eq(tasks.id, taskId)): touches the
\* row if there is one.
UpdateTask(table, t, status) ==
    IF table[t] = "none" THEN table ELSE [table EXCEPT ![t] = status]

\* postNotification: a system row carrying the task id.
PostNotification(rows, t) ==
    Append(rows, [role |-> "system", kind |-> "agent_result", task |-> t])

\* spawn_agent's execute: insert the task row as pending, send the event.
SpawnAgentTool ==
    /\ \E t \in TaskIds :
        /\ taskStatus[t] = "none"
        /\ ~sent[t]
        /\ taskStatus' = [taskStatus EXCEPT ![t] = "pending"]
        /\ sent' = [sent EXCEPT ![t] = TRUE]
        /\ originIdx' = [originIdx EXCEPT ![t] = LastUserRow]
    /\ UNCHANGED <<runs, agentConvs, originRows, runnerVars, schedVars, streamVars, libVars>>

\* The substrate delivers the spawn event, a first time or again
\* (at-least-once): every delivery starts a run of the function.
DeliverSpawnEvent ==
    /\ Len(runs) < MaxRuns
    /\ \E t \in TaskIds :
        /\ sent[t]
        /\ runs' = Append(runs, [task |-> t, pc |-> "setup", attempt |-> 0,
                                 result |-> "none"])
    /\ UNCHANGED <<taskStatus, sent, originIdx, agentConvs, originRows,
                   runnerVars, schedVars, streamVars, libVars>>

\* step "setup": insert a conversation and its seed message, mark the task
\* running.
Setup ==
    /\ \E r \in DOMAIN runs :
        /\ runs[r].pc = "setup"
        /\ LET t == runs[r].task IN
            /\ agentConvs' = [agentConvs EXCEPT ![t] = @ + 1]
            /\ taskStatus' = UpdateTask(taskStatus, t, "running")
        /\ runs' = [runs EXCEPT ![r].pc = "execute"]
    /\ UNCHANGED <<sent, originIdx, originRows, runnerVars, schedVars, streamVars, libVars>>

\* How AgentRunner.run ends: with the answer, with what it had when the
\* model call failed (run() resolves all the same), or by raising because
\* modelRouter.route found no model.
RunOutcomes == {"ok", "llm_error", "throw"}

\* step "execute": runner.run. A raise fails the step, which the substrate
\* retries `Retries` times before it fails the run.
Execute ==
    /\ \E r \in DOMAIN runs, outcome \in RunOutcomes :
        /\ runs[r].pc = "execute"
        /\ runs' = [runs EXCEPT ![r] =
              IF outcome = "throw"
              THEN IF runs[r].attempt < Retries
                   THEN [@ EXCEPT !.attempt = @ + 1]
                   ELSE [@ EXCEPT !.pc = "failed"]
              ELSE [@ EXCEPT !.pc = "deliver", !.result = outcome,
                             !.attempt = 0]]
    /\ UNCHANGED <<taskStatus, sent, originIdx, agentConvs, originRows,
                   runnerVars, schedVars, streamVars, libVars>>

\* step "deliver-result", up to its await: the moved-on check and the
\* re-check run back to back; a user who moved on gets the notification and
\* the task is completed, otherwise the synthesis run is started.
DeliverResult ==
    /\ \E r \in DOMAIN runs :
        /\ runs[r].pc = "deliver"
        /\ LET t == runs[r].task IN
            IF NewerUserMessages(t) # {}
            THEN /\ originRows' = PostNotification(originRows, t)
                 /\ taskStatus' = UpdateTask(taskStatus, t, "completed")
                 /\ runs' = [runs EXCEPT ![r].pc = "finished"]
            ELSE /\ runs' = [runs EXCEPT ![r].pc = "synth"]
                 /\ UNCHANGED <<originRows, taskStatus>>
    /\ UNCHANGED <<sent, originIdx, agentConvs, runnerVars, schedVars, streamVars, libVars>>

\* step "deliver-result", after the await: the synthesis run has written
\* its assistant turn into the origin conversation (none when its model call
\* raised); the task is completed.
SynthesisReturns ==
    /\ \E r \in DOMAIN runs, outcome \in {"ok", "llm_error"} :
        /\ runs[r].pc = "synth"
        /\ LET t == runs[r].task IN
            /\ originRows' =
                 IF outcome = "ok"
                 THEN Append(originRows, [role |-> "assistant",
                                          kind |-> "synthesis", task |-> t])
                 ELSE originRows
            /\ taskStatus' = UpdateTask(taskStatus, t, "completed")
        /\ runs' = [runs EXCEPT ![r].pc = "finished"]
    /\ UNCHANGED <<sent, originIdx, agentConvs, runnerVars, schedVars, streamVars, libVars>>

\* ChatHandler.setupConversation: the user writes again in the originating
\* conversation.
UserSendsMessage ==
    /\ Cardinality({i \in DOMAIN originRows : originRows[i].role = "user"})
           <= MaxUserMessages
    /\ originRows' = Append(originRows,
            [role |-> "user", kind |-> "message", task |-> 0])
    /\ UNCHANGED <<taskStatus, sent, originIdx, runs, agentConvs,
                   runnerVars, schedVars, streamVars, libVars>>

NextDispatch ==
    \/ SpawnAgentTool
    \/ DeliverSpawnEvent
    \/ Setup
    \/ Execute
    \/ DeliverResult
    \/ SynthesisReturns
    \/ UserSendsMessage

InitDispatchOnly == RunnerIdle /\ InitDispatch /\ SchedIdle /\ StreamIdle /\ LibIdle

SpecDispatch == InitDispatchOnly /\ [][NextDispatch]_vars

\* ------------------------------------------------------------------------
\* run-scheduler: the cron function
\* ------------------------------------------------------------------------
RECURSIVE DueFromStrict(_, _)
DueFromStrict(i, at) ==
    IF i > MaxSched THEN <<>>
    ELSE IF /\ schedRows[i].status = "active"
            /\ schedRows[i].nextRunAt # NoTime
            /\ schedRows[i].nextRunAt < at
         THEN <<[id |-> i, type |-> schedRows[i].type,
                 agentId |-> schedRows[i].agentId]>>
                  \o DueFromStrict(i + 1, at)
         ELSE DueFromStrict(i + 1, at)

RECURSIVE DueFrom(_, _)
\* The select of check-due-tasks: active rows with nextRunAt <= now, in
\* table order, as read at that moment.
DueFrom(i, at) ==
    IF i > MaxSched THEN <<>>
    ELSE IF /\ schedRows[i].status = "active"
            /\ schedRows[i].nextRunAt # NoTime
            /\ schedRows[i].nextRunAt <= at
         THEN <<[id |-> i, type |-> schedRows[i].type,
                 agentId |-> schedRows[i].agentId]>> \o DueFrom(i + 1, at)
         ELSE DueFrom(i + 1, at)

FiredRowSameMinute(row, type, at) ==
    [row EXCEPT !.lastRunAt = at,
                !.nextRunAt = IF type = "recurring" THEN at ELSE NoTime,
                !.status = IF type = "one_shot" THEN "completed" ELSE "active"]

\* The update after a dispatch, from the row as the scan read it.
FiredRow(row, type, at) ==
    [row EXCEPT !.lastRunAt = at,
                !.nextRunAt = IF type = "recurring" THEN at + 1 ELSE NoTime,
                !.status = IF type = "one_shot" THEN "completed" ELSE "active"]

\* A minute passes.
Tick ==
    /\ now < MaxTime
    /\ now' = now + 1
    /\ UNCHANGED <<lastScanAt, schedRows, scans, outbox, runnerVars,
                   dispatchVars, streamVars, libVars>>

RECURSIVE Advance(_)
\* The for-of loop from its current index to its next await: a task whose
\* agent is gone is skipped, any other is handed to inngest.send; past the
\* last task the step returns.
Advance(scan) ==
    IF scan.idx > Len(scan.due) THEN [scan EXCEPT !.pc = "done"]
    ELSE LET task == scan.due[scan.idx] IN
         IF task.agentId # "" /\ task.agentId \notin AgentsTable
         THEN Advance([scan EXCEPT !.idx = @ + 1])
         ELSE [scan EXCEPT !.pc = "sending"]

\* The cron trigger starts the function once a minute: the step reads the
\* due tasks, returns at once when there are none, and otherwise runs up to
\* its first inngest.send.
StartScan ==
    /\ lastScanAt < now
    /\ Len(scans) < MaxScans
    /\ lastScanAt' = now
    /\ scans' = Append(scans,
          Advance([at |-> now, due |-> DueFrom(1, now), idx |-> 1,
                   pc |-> "loop", dispatched |-> 0, errors |-> {}]))
    /\ UNCHANGED <<now, schedRows, outbox, runnerVars, dispatchVars, streamVars, libVars>>

\* inngest.send resolves: the event is out, the row is updated, and the
\* loop runs on to its next send.
SendResolves ==
    /\ \E s \in DOMAIN scans :
        /\ scans[s].pc = "sending"
        /\ LET task == scans[s].due[scans[s].idx] IN
            /\ outbox' = Append(outbox,
                  [name |-> IF task.agentId # "" THEN "megabot/agent.spawn"
                            ELSE "megabot/scheduled-task.run",
                   id |-> task.id, at |-> scans[s].at])
            /\ schedRows' = [schedRows EXCEPT ![task.id] =
                  FiredRow(@, task.type, scans[s].at)]
        /\ scans' = [scans EXCEPT ![s] =
              Advance([@ EXCEPT !.idx = @ + 1, !.dispatched = @ + 1])]
    /\ UNCHANGED <<now, lastScanAt, runnerVars, dispatchVars, streamVars, libVars>>

\* inngest.send rejects: the catch logs the task id, the row stays as it
\* is, and the loop runs on.
SendRejects ==
    /\ \E s \in DOMAIN scans :
        /\ scans[s].pc = "sending"
        /\ scans' = [scans EXCEPT ![s] =
              Advance([@ EXCEPT !.idx = @ + 1,
                                !.errors = @ \cup {scans[s].due[scans[s].idx].id}])]
    /\ UNCHANGED <<now, lastScanAt, schedRows, outbox, runnerVars,
                   dispatchVars, streamVars, libVars>>

NextSched ==
    \/ Tick
    \/ StartScan
    \/ SendResolves
    \/ SendRejects

InitSchedOnly == RunnerIdle /\ InitDispatch /\ InitSched /\ StreamIdle /\ LibIdle

SpecSched == InitSchedOnly /\ [][NextSched]_vars

\* ------------------------------------------------------------------------
\* The functions behind the scheduler's events: run-agent for
\* megabot/agent.spawn, run-scheduled-task for megabot/scheduled-task.run
\* ------------------------------------------------------------------------
MaxAttempts == 2

\* Ids are nanoids: the id of a scheduled_tasks row, which the scheduler
\* puts into the spawn event as taskId, and the id of a tasks row are never
\* equal.
SchedTaskId(i) == <<"scheduled_tasks", i>>

NewTaskId(rows) == <<"tasks", Len(rows) + 1>>

\* db.update(tasks).set({status}).where(eq(tasks.id, taskId)).
UpdateTaskRows(rows, taskId, status) ==
    [i \in DOMAIN rows |->
        IF rows[i].id = taskId THEN [rows[i] EXCEPT !.status = status]
        ELSE rows[i]]

Delivered == {attempts[a].event : a \in DOMAIN attempts}

\* The substrate delivers an event of the outbox and starts the function
\* it triggers.
DeliverEvent ==
    /\ Len(attempts) < MaxAttempts
    /\ \E e \in DOMAIN outbox \ Delivered :
        attempts' = Append(attempts,
            [event |-> e, name |-> outbox[e].name, pc |-> "setup",
             taskId |-> IF outbox[e].name = "megabot/agent.spawn"
                        THEN SchedTaskId(outbox[e].id) ELSE <<>>])
    /\ UNCHANGED <<taskRows, runnerVars, dispatchVars, schedVars, streamVars,
                   busVars, fnVars,
                   regVars, client>>

\* step "setup". run-agent updates the tasks row with the event's taskId
\* to running; run-scheduled-task inserts a tasks row, running, under a new
\* id.
AttemptSetup ==
    /\ \E a \in DOMAIN attempts :
        /\ attempts[a].pc = "setup"
        /\ IF attempts[a].name = "megabot/agent.spawn"
           THEN /\ taskRows' = UpdateTaskRows(taskRows, attempts[a].taskId,
                                              "running")
                /\ attempts' = [attempts EXCEPT ![a].pc = "execute"]
           ELSE /\ taskRows' = Append(taskRows,
                        [id |-> NewTaskId(taskRows), type |-> "scheduled",
                         status |-> "running"])
                /\ attempts' = [attempts EXCEPT ![a].pc = "execute",
                                    ![a].taskId = NewTaskId(taskRows)]
    /\ UNCHANGED <<runnerVars, dispatchVars, schedVars, streamVars, busVars,
                   fnVars, regVars, client>>

\* step "execute": runner.run returns, or keeps raising until the
\* substrate gives the run up.
AttemptExecute ==
    /\ \E a \in DOMAIN attempts, outcome \in {"ok", "throw"} :
        /\ attempts[a].pc = "execute"
        /\ attempts' = [attempts EXCEPT ![a].pc =
              IF outcome = "ok" THEN "final" ELSE "failed"]
    /\ UNCHANGED <<taskRows, runnerVars, dispatchVars, schedVars, streamVars,
                   busVars, fnVars,
                   regVars, client>>

\* The last step, "deliver-result" or "notify": the tasks row with the
\* attempt's task id is updated to completed.
AttemptFinal ==
    /\ \E a \in DOMAIN attempts :
        /\ attempts[a].pc = "final"
        /\ taskRows' = UpdateTaskRows(taskRows, attempts[a].taskId,
                                      "completed")
        /\ attempts' = [attempts EXCEPT ![a].pc = "done"]
    /\ UNCHANGED <<runnerVars, dispatchVars, schedVars, streamVars, busVars,
                   fnVars, regVars, client>>

NextBackground ==
    \/ NextSched
    \/ DeliverEvent
    \/ AttemptSetup
    \/ AttemptExecute
    \/ AttemptFinal

InitBackgroundOnly ==
    /\ RunnerIdle /\ InitDispatch /\ InitSched /\ StreamIdle
    /\ BusIdle /\ InitBackground /\ FnIdle
    /\ RegIdle /\ ClientIdle

SpecBackground == InitBackgroundOnly /\ [][NextBackground]_vars

\* ------------------------------------------------------------------------
\* truncateHistory
\* ------------------------------------------------------------------------
MaxHistory == 4
MaxBudget == 4

\* The messages a conversation's rows are turned into: text of a user or
\* an assistant, an assistant message with a tool_use block, and the
\* user-role message carrying its tool_result block. `len` is what charLen
\* returns for it, `idx` its place in the history.
MessageKinds == {"text", "tool_use", "tool_result"}

Message(role, kind, len, idx) ==
    [role |-> role, kind |-> kind, len |-> len, idx |-> idx]

MessageShapes ==
    {Message("user", "text", 1, 0), Message("user", "text", 2, 0),
     Message("assistant", "text", 1, 0), Message("assistant", "text", 2, 0),
     Message("assistant", "tool_use", 1, 0),
     Message("user", "tool_result", 1, 0)}

\* The histories a conversation produces: the user speaks first, a
\* tool_use message is followed at once by its tool_result message, a
\* tool_result message follows its tool_use message, and the assistant
\* answers text or tool results only.
WellFormed(h) ==
    /\ h[1].role = "user" /\ h[1].kind = "text"
    /\ \A i \in DOMAIN h :
        /\ h[i].kind = "tool_use" =>
              i < Len(h) /\ h[i + 1].kind = "tool_result"
        /\ h[i].kind = "tool_result" => i > 1 /\ h[i - 1].kind = "tool_use"
        /\ (h[i].role = "assistant" /\ i > 1) => h[i - 1].role = "user"
        /\ (h[i].kind = "text" /\ h[i].role = "user" /\ i > 1) =>
              h[i - 1].role = "assistant" /\ h[i - 1].kind = "text"

Histories ==
    UNION {{[i \in 1..n |-> [shapes[i] EXCEPT !.idx = i]] :
              shapes \in {f \in [1..n -> MessageShapes] : WellFormed(f)}} :
           n \in 1..MaxHistory}

\* charLen summed over the messages.
RECURSIVE TotalChars(_)
TotalChars(msgs) ==
    IF msgs = <<>> THEN 0 ELSE Head(msgs).len + TotalChars(Tail(msgs))

\* The backwards loop from index i: a message is kept while it fits, and
\* the last message is kept whatever its length.
RECURSIVE KeepFrom(_, _, _, _, _)
KeepFrom(msgs, i, kept, chars, maxChars) ==
    IF i < 1 THEN kept
    ELSE IF chars + msgs[i].len > maxChars /\ Len(kept) > 0 THEN kept
         ELSE KeepFrom(msgs, i - 1, <<msgs[i]>> \o kept,
                       chars + msgs[i].len, maxChars)

\* while (kept.length > 0 && firstMsg && firstMsg.role !== "user")
\*   kept.shift(): firstMsg was read once, before the loop.
RECURSIVE ShiftWhile(_, _)
ShiftWhile(kept, firstMsg) ==
    IF Len(kept) > 0 /\ firstMsg.role # "user"
    THEN ShiftWhile(Tail(kept), firstMsg)
    ELSE kept

TruncateHistory(msgs, maxChars) ==
    IF TotalChars(msgs) <= maxChars THEN msgs
    ELSE LET kept == KeepFrom(msgs, Len(msgs), <<>>, 0, maxChars)
         IN  ShiftWhile(kept, kept[1])

InitTruncate ==
    /\ callArgs \in {[fn |-> "truncateHistory", msgs |-> h, maxChars |-> b] :
                        h \in Histories, b \in 1..MaxBudget}
    /\ callResult = NoResult

TruncateHistoryCall ==
    /\ callArgs.fn = "truncateHistory"
    /\ ~callResult.done
    /\ callResult' = [done |-> TRUE,
                      value |-> TruncateHistory(callArgs.msgs,
                                                callArgs.maxChars)]
    /\ UNCHANGED <<callArgs, runnerVars, dispatchVars, schedVars, streamVars,
                   busVars, bgVars,
                   regVars, client>>

NextTruncate ==
    \/ TruncateHistoryCall

InitTruncateOnly ==
    /\ RunnerIdle /\ InitDispatch /\ SchedIdle /\ StreamIdle
    /\ BusIdle /\ BgIdle /\ InitTruncate
    /\ RegIdle /\ ClientIdle

SpecTruncate == InitTruncateOnly /\ [][NextTruncate]_vars

\* ------------------------------------------------------------------------
\* ModelRouter.route over the registered LLM plugins
\* ------------------------------------------------------------------------

MaxPlugins == 2
MaxModels == 2
MaxSegments == 3

\* A model id string is the sequence of its parts between ":" characters:
\* "m1" is <<"m1">>, "p1:m1" is <<"p1", "m1">>, "" is <<"">>.  An absent
\* modelId (undefined) is the empty sequence, an absent tier "undefined".
Segments == {"", "p1", "m1", "x"}

Undefined == <<>>

ModelIdStrings == UNION {[1..n -> Segments] : n \in 1..MaxSegments}

RequestedTiers == {"undefined", "fast", "powerful"}

\* The models a plugin declares: an id without ":" and a tier.
ModelDefinitions == [id : {"m1", "m2"}, tier : {"fast", "standard"}]

ModelLists == UNION {[1..n -> ModelDefinitions] : n \in 0..MaxModels}

PluginIds == {"p1", "p2"}

\* getLLMPlugins(): the registered LLM plugins in registration order, no
\* id twice (the registry is a Map keyed by id).
PluginLists ==
    {ps \in UNION {[1..n -> [id : PluginIds, models : ModelLists]] :
                      n \in 0..MaxPlugins} :
        \A i, j \in DOMAIN ps : ps[i].id = ps[j].id => i = j}

NoModel == [id |-> "", tier |-> ""]

Throw == [raised |-> TRUE, plugin |-> "", model |-> NoModel]

RouteResult(plugin, model) ==
    [raised |-> FALSE, plugin |-> plugin.id, model |-> model]

\* params.modelId.includes(":") ? params.modelId.split(":", 2)
\*                              : [undefined, params.modelId]
\* split with limit 2 keeps the first two parts and drops the rest.
SplitModelId(modelId) ==
    IF Len(modelId) > 1
    THEN [providerId |-> modelId[1], modelId |-> modelId[2]]
    ELSE [providerId |-> "undefined", modelId |-> modelId[1]]

\* plugin.models.find(m => m.id === modelId), as an index (0: not found)
FindById(models, modelId) ==
    IF \E j \in DOMAIN models : models[j].id = modelId
    THEN CHOOSE j \in DOMAIN models :
            /\ models[j].id = modelId
            /\ \A k \in 1..(j - 1) : models[k].id # modelId
    ELSE 0

\* plugin.models.find(m => m.tier === targetTier), as an index
FindByTier(models, targetTier) ==
    IF \E j \in DOMAIN models : models[j].tier = targetTier
    THEN CHOOSE j \in DOMAIN models :
            /\ models[j].tier = targetTier
            /\ \A k \in 1..(j - 1) : models[k].tier # targetTier
    ELSE 0

\* for (const plugin of llmPlugins) {
\*   if (providerId && plugin.id !== providerId) continue;
\*   const model = plugin.models.find(...); if (model) return ... }
\* throw "not found"
RECURSIVE RouteById(_, _, _, _)
RouteById(llmPlugins, i, providerId, modelId) ==
    IF i > Len(llmPlugins) THEN Throw
    ELSE IF providerId # "undefined" /\ providerId # ""
              /\ llmPlugins[i].id # providerId
         THEN RouteById(llmPlugins, i + 1, providerId, modelId)
         ELSE LET j == FindById(llmPlugins[i].models, modelId)
              IN  IF j # 0
                  THEN RouteResult(llmPlugins[i], llmPlugins[i].models[j])
                  ELSE RouteById(llmPlugins, i + 1, providerId, modelId)

\* the fallback: first model of the first plugin, a throw when it has none
RouteFallback(llmPlugins) ==
    IF Len(llmPlugins[1].models) = 0 THEN Throw
    ELSE RouteResult(llmPlugins[1], llmPlugins[1].models[1])

RECURSIVE RouteByTier(_, _, _)
RouteByTier(llmPlugins, i, targetTier) ==
    IF i > Len(llmPlugins) THEN RouteFallback(llmPlugins)
    ELSE LET j == FindByTier(llmPlugins[i].models, targetTier)
         IN  IF j # 0
             THEN RouteResult(llmPlugins[i], llmPlugins[i].models[j])
             ELSE RouteByTier(llmPlugins, i + 1, targetTier)

\* if (params?.modelId): undefined and "" are both falsy
ModelIdGiven(modelId) == modelId # Undefined /\ modelId # <<"">>

\* A router that answers an empty registry with no model instead of
\* throwing.
RouteWithoutGuard(llmPlugins, params) ==
    IF Len(llmPlugins) = 0
    THEN [raised |-> FALSE, plugin |-> "", model |-> NoModel]
    ELSE IF ModelIdGiven(params.modelId)
         THEN LET split == SplitModelId(params.modelId)
              IN  RouteById(llmPlugins, 1, split.providerId, split.modelId)
         ELSE RouteByTier(llmPlugins, 1,
                          IF params.tier = "undefined" THEN "standard"
                          ELSE params.tier)

Route(llmPlugins, params) ==
    IF Len(llmPlugins) = 0 THEN Throw
    ELSE IF ModelIdGiven(params.modelId)
         THEN LET split == SplitModelId(params.modelId)
              IN  RouteById(llmPlugins, 1, split.providerId, split.modelId)
         ELSE RouteByTier(llmPlugins, 1,
                          IF params.tier = "undefined" THEN "standard"
                          ELSE params.tier)

InitRoute ==
    /\ callArgs \in {[fn |-> "route", llmPlugins |-> ps,
                      params |-> [tier |-> t, modelId |-> m]] :
                        ps \in PluginLists, t \in RequestedTiers,
                        m \in ModelIdStrings \cup {Undefined}}
    /\ callResult = NoResult

RouteCall ==
    /\ callArgs.fn = "route"
    /\ ~callResult.done
    /\ callResult' = [done |-> TRUE,
                      value |-> Route(callArgs.llmPlugins, callArgs.params)]
    /\ UNCHANGED <<callArgs, runnerVars, dispatchVars, schedVars, streamVars,
                   busVars, bgVars,
                   regVars, client>>

NextRoute ==
    \/ RouteCall

InitRouteOnly ==
    /\ RunnerIdle /\ InitDispatch /\ SchedIdle /\ StreamIdle
    /\ BusIdle /\ BgIdle /\ InitRoute
    /\ RegIdle /\ ClientIdle

SpecRoute == InitRouteOnly /\ [][NextRoute]_vars

\* ------------------------------------------------------------------------
\* ToolRegistry.search over the registered tools, in registration order
\* ------------------------------------------------------------------------

MaxRegistered == 4
MaxTokens == 2

\* Strings are sequences of characters here: search lower-cases them,
\* splits them and looks for substrings.
Web == <<"w", "e", "b">>
Get == <<"g", "e", "t">>
Run == <<"r", "u", "n">>
Fs == <<"f", "s">>

\* The tools that may be registered: name, description, keywords.
ToolPool ==
    { [name |-> Web, description |-> Get, keywords |-> <<>>],
      [name |-> Run, description |-> <<"W", "e", "b">>,
       keywords |-> <<Fs>>],
      [name |-> Fs, description |-> Run, keywords |-> <<Get>>],
      [name |-> <<"g", "e">>, description |-> <<"t", "o">>,
       keywords |-> <<>>] }

\* getAll(): the values of the tools Map in insertion order; register
\* refuses a name that is already there.
Registries ==
    {ts \in UNION {[1..n -> ToolPool] : n \in 0..MaxRegistered} :
        \A i, j \in DOMAIN ts : ts[i].name = ts[j].name => i = j}

QueryTokens == {Web, <<"W", "E", "B">>, Get, Run, Fs}

RECURSIVE Join(_, _)
Join(parts, sep) ==
    IF Len(parts) = 0 THEN <<>>
    ELSE IF Len(parts) = 1 THEN parts[1]
    ELSE parts[1] \o sep \o Join(Tail(parts), sep)

\* The query strings: up to two tokens with a blank between them, with or
\* without a leading blank; the empty string and a lone blank among them.
QueryStrings ==
    {lead \o Join(ts, <<" ">>) :
        lead \in {<<>>, <<" ">>},
        ts \in UNION {[1..n -> QueryTokens] : n \in 0..MaxTokens}}

ToLowerChar(c) ==
    CASE c = "W" -> "w"
      [] c = "E" -> "e"
      [] c = "B" -> "b"
      [] OTHER -> c

ToLowerCase(str) == [i \in DOMAIN str |-> ToLowerChar(str[i])]

\* str.split(/\s+/): the pieces between runs of blanks, an empty piece
\* before a leading run and after a trailing one.
RECURSIVE SplitFrom(_, _, _, _)
SplitFrom(str, i, piece, pieces) ==
    IF i > Len(str) THEN Append(pieces, piece)
    ELSE IF str[i] = " "
         THEN IF i > 1 /\ str[i - 1] = " "
              THEN SplitFrom(str, i + 1, piece, pieces)
              ELSE SplitFrom(str, i + 1, <<>>, Append(pieces, piece))
         ELSE SplitFrom(str, i + 1, Append(piece, str[i]), pieces)

Split(str) == SplitFrom(str, 1, <<>>, <<>>)

\* haystack.includes(w)
Includes(haystack, w) ==
    \E i \in 0..(Len(haystack) - Len(w)) :
        SubSeq(haystack, i + 1, i + Len(w)) = w

\* A tokenizer that keeps the short words.
QueryWordsOfAnyLength(query) ==
    SelectSeq(Split(ToLowerCase(query)), LAMBDA w : Len(w) > 0)

\* query.toLowerCase().split(/\s+/).filter(w => w.length > 2)
QueryWords(query) ==
    SelectSeq(Split(ToLowerCase(query)), LAMBDA w : Len(w) > 2)

\* [name, description, ...keywords], lower-cased, joined by " "
HaystackOf(tool) ==
    Join(<<ToLowerCase(tool.name), ToLowerCase(tool.description)>>
            \o [k \in DOMAIN tool.keywords |->
                    ToLowerCase(tool.keywords[k])],
         <<" ">>)

\* words.filter(w => haystack.includes(w)).length
Hits(tool, words) ==
    Len(SelectSeq(words, LAMBDA w : Includes(HaystackOf(tool), w)))

\* An unstable sort: an element goes in front of those of equal hits.
InsertFirstByHits(sorted, x) ==
    LET n == Cardinality({i \in DOMAIN sorted : sorted[i].hits > x.hits})
    IN  SubSeq(sorted, 1, n) \o <<x>> \o SubSeq(sorted, n + 1, Len(sorted))

\* scored.sort((a, b) => b.hits - a.hits): Array.prototype.sort is stable,
\* an element goes behind those of equal hits that came before it.
InsertByHits(sorted, x) ==
    LET n == Cardinality({i \in DOMAIN sorted : sorted[i].hits >= x.hits})
    IN  SubSeq(sorted, 1, n) \o <<x>> \o SubSeq(sorted, n + 1, Len(sorted))

RECURSIVE SortByHits(_, _)
SortByHits(scored, sorted) ==
    IF Len(scored) = 0 THEN sorted
    ELSE SortByHits(Tail(scored), InsertByHits(sorted, Head(scored)))

Search(tools, query) ==
    LET words == QueryWords(query)
        scored == SelectSeq([i \in DOMAIN tools |->
                                [tool |-> tools[i],
                                 hits |-> Hits(tools[i], words)]],
                            LAMBDA s : s.hits > 0)
        sorted == SortByHits(scored, <<>>)
    IN  IF Len(words) = 0 THEN tools
        ELSE [i \in DOMAIN sorted |-> sorted[i].tool]

InitSearch ==
    /\ callArgs \in {[fn |-> "search", tools |-> ts, query |-> q] :
                        ts \in Registries, q \in QueryStrings}
    /\ callResult = NoResult

SearchCall ==
    /\ callArgs.fn = "search"
    /\ ~callResult.done
    /\ callResult' = [done |-> TRUE,
                      value |-> Search(callArgs.tools, callArgs.query)]
    /\ UNCHANGED <<callArgs, runnerVars, dispatchVars, schedVars, streamVars,
                   busVars, bgVars,
                   regVars, client>>

NextSearch ==
    \/ SearchCall

InitSearchOnly ==
    /\ RunnerIdle /\ InitDispatch /\ SchedIdle /\ StreamIdle
    /\ BusIdle /\ BgIdle /\ InitSearch
    /\ RegIdle /\ ClientIdle

SpecSearch == InitSearchOnly /\ [][NextSearch]_vars

\* ------------------------------------------------------------------------
\* PluginRegistry and the ToolRegistry it registers the plugins' tools in
\* ------------------------------------------------------------------------

ToolNamesOffered == {"x", "y", "z"}

\* The plugins that may be handed to register: tool plugins with up to two
\* tools, and an LLM plugin (it has no tools).
PluginPool ==
    [id : PluginIds, type : {"tool"},
     tools : UNION {[1..n -> ToolNamesOffered] : n \in 0..2}]
    \cup [id : PluginIds, type : {"llm"}, tools : {<<>>}]

\* this.tools.has(name)
HasTool(registered, name) == \E i \in DOMAIN registered :
                                registered[i].name = name

\* this.plugins.has(id)
HasPlugin(registered, id) == \E i \in DOMAIN registered :
                                registered[i].id = id

\* A register that replaces the tool of that name.
ToolSet(registered, name, pluginId) ==
    [raised |-> FALSE,
     tools |-> Append(SelectSeq(registered, LAMBDA t : t.name # name),
                      [name |-> name, pluginId |-> pluginId])]

\* ToolRegistry.register(tool, pluginId): throws when the name is taken,
\* else tools.set(name, {...tool, pluginId}).
ToolRegister(registered, name, pluginId) ==
    IF HasTool(registered, name)
    THEN [raised |-> TRUE, tools |-> registered]
    ELSE [raised |-> FALSE,
          tools |-> Append(registered,
                           [name |-> name, pluginId |-> pluginId])]

\* ToolRegistry.unregister(name): tools.delete(name)
ToolUnregister(registered, name) ==
    SelectSeq(registered, LAMBDA t : t.name # name)

\* for (const tool of plugin.tools) this.toolRegistry.register(tool, id):
\* the first throw leaves the loop, and register with it.
RECURSIVE RegisterTools(_, _, _)
RegisterTools(registered, names, pluginId) ==
    IF Len(names) = 0 THEN [raised |-> FALSE, tools |-> registered]
    ELSE LET one == ToolRegister(registered, Head(names), pluginId)
         IN  IF one.raised THEN one
             ELSE RegisterTools(one.tools, Tail(names), pluginId)

\* for (const tool of plugin.tools) this.toolRegistry.unregister(tool.name)
RECURSIVE UnregisterTools(_, _)
UnregisterTools(registered, names) ==
    IF Len(names) = 0 THEN registered
    ELSE UnregisterTools(ToolUnregister(registered, Head(names)),
                         Tail(names))

\* toolRegistry.register(tool, pluginId), called on the registry itself
RegisterTool ==
    /\ \E name \in ToolNamesOffered, pluginId \in PluginIds :
        LET r == ToolRegister(toolMap, name, pluginId)
        IN  /\ toolMap' = r.tools
            /\ lastCall' = [op |-> "registerTool", raised |-> r.raised,
                            name |-> name, pluginId |-> pluginId]
    /\ UNCHANGED <<pluginMap, client, runnerVars, dispatchVars, schedVars,
                   streamVars, busVars, bgVars, fnVars>>

\* toolRegistry.unregister(name)
UnregisterTool ==
    /\ \E name \in ToolNamesOffered :
        /\ toolMap' = ToolUnregister(toolMap, name)
        /\ lastCall' = [op |-> "unregisterTool", raised |-> FALSE,
                        name |-> name, pluginId |-> ""]
    /\ UNCHANGED <<pluginMap, client, runnerVars, dispatchVars, schedVars,
                   streamVars, busVars, bgVars, fnVars>>

NextToolRegistry ==
    \/ RegisterTool
    \/ UnregisterTool

InitToolRegistryOnly ==
    /\ RunnerIdle /\ InitDispatch /\ SchedIdle /\ StreamIdle
    /\ BusIdle /\ BgIdle /\ FnIdle /\ InitRegistry /\ ClientIdle

SpecToolRegistry == InitToolRegistryOnly /\ [][NextToolRegistry]_vars

\* PluginRegistry.register(plugin): throws on a registered id; else the
\* plugin is set, and the tools of a tool plugin are registered one by one.
RegisterPlugin ==
    /\ \E plugin \in PluginPool :
        IF HasPlugin(pluginMap, plugin.id)
        THEN /\ lastCall' = [op |-> "register", raised |-> TRUE,
                             plugin |-> plugin]
             /\ UNCHANGED <<pluginMap, toolMap>>
        ELSE LET r == IF plugin.type = "tool"
                      THEN RegisterTools(toolMap, plugin.tools, plugin.id)
                      ELSE [raised |-> FALSE, tools |-> toolMap]
             IN  /\ pluginMap' = Append(pluginMap, plugin)
                 /\ toolMap' = r.tools
                 /\ lastCall' = [op |-> "register", raised |-> r.raised,
                                 plugin |-> plugin]
    /\ UNCHANGED <<client, runnerVars, dispatchVars, schedVars, streamVars,
                   busVars, bgVars, fnVars>>

\* PluginRegistry.unregister(id): false for an unknown id; else the tools
\* the plugin lists are unregistered by name and the plugin is deleted.
UnregisterPlugin ==
    /\ \E id \in PluginIds :
        IF ~HasPlugin(pluginMap, id)
        THEN /\ lastCall' = [op |-> "unregister", raised |-> FALSE,
                             plugin |-> [id |-> id, type |-> "",
                                         tools |-> <<>>]]
             /\ UNCHANGED <<pluginMap, toolMap>>
        ELSE LET plugin == pluginMap[CHOOSE i \in DOMAIN pluginMap :
                                        pluginMap[i].id = id]
             IN  /\ toolMap' = IF plugin.type = "tool"
                             THEN UnregisterTools(toolMap, plugin.tools)
                             ELSE toolMap
                 /\ pluginMap' = SelectSeq(pluginMap, LAMBDA p : p.id # id)
                 /\ lastCall' = [op |-> "unregister", raised |-> FALSE,
                                 plugin |-> plugin]
    /\ UNCHANGED <<client, runnerVars, dispatchVars, schedVars, streamVars,
                   busVars, bgVars, fnVars>>

NextPlugins ==
    \/ RegisterPlugin
    \/ UnregisterPlugin

SpecPlugins == InitToolRegistryOnly /\ [][NextPlugins]_vars

\* ------------------------------------------------------------------------
\* ChatStreamManager: one conversation id, the generators started for it
\* ------------------------------------------------------------------------

\* The chunk types a generator may yield, as far as the manager and the
\* routes' callbacks tell them apart.
StreamChunkTypes == {"text", "tool_call_start", "tool_result", "done"}

Running == {e \in DOMAIN execs : ~execs[e].done}

RECURSIVE TotalYielded(_)
\* Chunks yielded so far by the generators 1..n together.
TotalYielded(n) == IF n = 0 THEN 0 ELSE execs[n].yielded + TotalYielded(n - 1)

\* isActive(id).
IsActive == streams # 0 /\ ~execs[streams].done

RECURSIVE LastToolResultIdx(_, _)
\* getCurrentTurnStartIndex, first loop: from i down to 0, the index of the
\* first tool_result met, -1 when there is none (indices from 0, as in the
\* code).
LastToolResultIdx(buffer, i) ==
    IF i < 0 THEN -1
    ELSE IF buffer[i + 1].type = "tool_result" THEN i
         ELSE LastToolResultIdx(buffer, i - 1)


RECURSIVE FirstTurnChunkFrom(_, _)
\* getCurrentTurnStartIndex, second loop: from i upwards, the index of the
\* first text or tool_call_start chunk, the buffer's length when there is
\* none.
FirstTurnChunkFrom(buffer, i) ==
    IF i >= Len(buffer) THEN Len(buffer)
    ELSE IF buffer[i + 1].type \in {"text", "tool_call_start"} THEN i
         ELSE FirstTurnChunkFrom(buffer, i + 1)

TurnStartIgnoringResults(buffer) == FirstTurnChunkFrom(buffer, 0)

GetCurrentTurnStartIndex(buffer) ==
    FirstTurnChunkFrom(buffer, LastToolResultIdx(buffer, Len(buffer) - 1) + 1)

\* The routes' callback, invoked with one chunk: it enqueues the chunk and
\* closes its controller on done.
Invoke(cb, chunk) ==
    [cb EXCEPT !.received = Append(@, chunk),
               !.closed = @ \/ chunk.type = "done"]

RECURSIVE Replay(_, _, _)
\* The replay loops of subscribe / subscribeFromCurrentTurn: the callback is
\* invoked with buffer[from + 1 ..], in order.
Replay(cb, buffer, from) ==
    IF from >= Len(buffer) THEN cb
    ELSE Replay(Invoke(cb, buffer[from + 1]), buffer, from + 1)


UnsubscribeCancels(stream, cb) ==
    [stream EXCEPT !.subscribers = @ \ {cb}, !.gen = "cancelled"]

\* The closure subscribe returns: stream.subscribers.delete(callback).
Unsubscribe(stream, cb) ==
    [stream EXCEPT !.subscribers = @ \ {cb}]

\* What a subscribe call notes about the moment it is made.
CallRecord(cb, method) ==
    LET last == Len(execs)
        target == IF last # 0 /\ (~execs[last].done \/ streams = last)
                  THEN last ELSE 0
    IN  [cb EXCEPT !.call = method,
                   !.target = target,
                   !.targetDone = IF target = 0 THEN FALSE ELSE execs[target].done,
                   !.atCall = IF target = 0 THEN 0 ELSE Len(execs[target].chunks)]

\* subscribe(id, callback): nothing without an entry; else replay the whole
\* buffer, and register unless the stream is done.
SubscribeCall(c) ==
    IF streams = 0
    THEN /\ callbacks' = [callbacks EXCEPT ![c] =
              CallRecord(NewCallback, "subscribe")]
         /\ UNCHANGED execs
    ELSE /\ callbacks' = [callbacks EXCEPT ![c] =
              Replay(CallRecord(NewCallback, "subscribe"),
                     execs[streams].chunks, 0)]
         /\ execs' = IF execs[streams].done THEN execs
                     ELSE [execs EXCEPT ![streams].subscribers = @ \cup {c}]

\* api.chat action: startStream(id, generator) - a finished entry is dropped
\* with its timer, the new ActiveStream is registered and its detached
\* consumer started - then createSSEStream subscribes the response.
StartStream ==
    /\ Len(execs) < MaxStreams
    /\ \E c \in Callbacks :
        /\ Free(callbacks[c])
        /\ LET cleaned ==
                 IF streams # 0 /\ execs[streams].done
                 THEN [execs EXCEPT ![streams].timer =
                          IF @ = "armed" THEN "cleared" ELSE @]
                 ELSE execs
               e == Len(execs) + 1
           IN  /\ execs' = Append(cleaned,
                     [chunks |-> <<>>, subscribers |-> {c}, done |-> FALSE,
                      gen |-> "running", yielded |-> 0, unheard |-> 0,
                      timer |-> "none"])
               /\ streams' = e
               /\ callbacks' = [callbacks EXCEPT ![c] =
                     [NewCallback EXCEPT !.call = "subscribe", !.target = e]]
    /\ UNCHANGED <<runnerVars, dispatchVars, schedVars, libVars>>

\* One turn of the consumer loop: the generator yields a chunk, the chunk is
\* pushed onto the buffer and every subscriber is invoked with it; a
\* callback whose controller is closed, or closes on this chunk,
\* unsubscribes itself and its request is over. `unheard` counts the chunks
\* yielded while nobody was subscribed.
Yield ==
    /\ \E e \in DOMAIN execs, type \in StreamChunkTypes :
        /\ execs[e].gen = "running"
        /\ TotalYielded(Len(execs)) < MaxChunks
        /\ LET chunk == [type |-> type, seq |-> execs[e].yielded + 1, exec |-> e]
               subs == execs[e].subscribers
               leaving == {c \in subs : callbacks[c].closed \/ type = "done"}
           IN  /\ callbacks' = [c \in Callbacks |->
                     IF c \in leaving THEN NewCallback
                     ELSE IF c \in subs THEN Invoke(callbacks[c], chunk)
                          ELSE callbacks[c]]
               /\ execs' = [execs EXCEPT
                     ![e].chunks = Append(@, chunk),
                     ![e].yielded = @ + 1,
                     ![e].unheard = IF subs = {} THEN @ + 1 ELSE @,
                     ![e].subscribers = subs \ leaving]
    /\ UNCHANGED <<streams, runnerVars, dispatchVars, schedVars, libVars>>

\* The generator returns (or throws): the finally block marks the stream
\* done, clears its subscribers and arms the cleanup timer.
GeneratorReturns ==
    /\ \E e \in DOMAIN execs :
        /\ execs[e].gen = "running"
        /\ execs' = [execs EXCEPT ![e].gen = "returned", ![e].done = TRUE,
                                  ![e].subscribers = {}, ![e].timer = "armed"]
    /\ UNCHANGED <<streams, callbacks, runnerVars, dispatchVars, schedVars, libVars>>

\* BUFFER_TTL_MS after the end: this.streams.delete(conversationId).
CleanupTimerFires ==
    /\ \E e \in DOMAIN execs :
        /\ execs[e].timer = "armed"
        /\ execs' = [execs EXCEPT ![e].timer = "fired"]
    /\ streams' = 0
    /\ UNCHANGED <<callbacks, runnerVars, dispatchVars, schedVars, libVars>>

\* subscribe(id, callback) from another client.
Subscribe ==
    /\ \E c \in Callbacks :
        /\ Free(callbacks[c])
        /\ SubscribeCall(c)
    /\ UNCHANGED <<streams, runnerVars, dispatchVars, schedVars, libVars>>

\* subscribeFromCurrentTurn(id, callback): nothing without an entry or when
\* the stream is done; else replay from the turn start and register.
SubscribeFromCurrentTurn ==
    /\ \E c \in Callbacks :
        /\ Free(callbacks[c])
        /\ IF streams = 0 \/ ~IsActive
           THEN /\ callbacks' = [callbacks EXCEPT ![c] =
                     CallRecord(NewCallback, "turn")]
                /\ UNCHANGED execs
           ELSE /\ callbacks' = [callbacks EXCEPT ![c] =
                     Replay(CallRecord(NewCallback, "turn"), execs[streams].chunks,
                            GetCurrentTurnStartIndex(execs[streams].chunks))]
                /\ execs' = [execs EXCEPT ![streams].subscribers = @ \cup {c}]
    /\ UNCHANGED <<streams, runnerVars, dispatchVars, schedVars, libVars>>

\* The request is aborted (the client went away): the abort listener calls
\* unsubscribe and closes the controller; the request is over.
Abort ==
    /\ \E c \in Callbacks :
        /\ callbacks[c].call # "none"
        /\ callbacks' = [callbacks EXCEPT ![c] = NewCallback]
        /\ execs' = [e \in DOMAIN execs |-> Unsubscribe(execs[e], c)]
    /\ UNCHANGED <<streams, runnerVars, dispatchVars, schedVars, libVars>>

NextStream ==
    \/ StartStream
    \/ Yield
    \/ GeneratorReturns
    \/ CleanupTimerFires
    \/ Subscribe
    \/ SubscribeFromCurrentTurn
    \/ Abort

InitStreamOnly == RunnerIdle /\ InitDispatch /\ SchedIdle /\ InitStream /\ LibIdle

SpecStream == InitStreamOnly /\ [][NextStream]_vars

\* The consumer loop and the generator it drives keep going: they wait for
\* nothing but the generator itself.
SpecStreamFair ==
    /\ SpecStream
    /\ WF_vars(Yield)
    /\ WF_vars(GeneratorReturns)

\* ------------------------------------------------------------------------
\* The conversation page reloaded while an execution is in progress: the
\* route loader reads the persisted messages, then the page opens
\* GET /api/chat/:id/stream. The manager's buffer of the execution is the
\* sequence of chunks the runner has yielded.
\* ------------------------------------------------------------------------

\* The generator has not returned: isActive(id) for its stream.
InProgress == pc \notin {"done", "stopped", "crashed"}

\* The page loader: the messages rows of the conversation, as they are now.
ClientLoads ==
    /\ client.phase = "none"
    /\ InProgress
    /\ client' = [client EXCEPT !.phase = "loaded",
                                !.rows = Len(dbMessages)]
    /\ UNCHANGED <<runnerVars, dispatchVars, schedVars, streamVars, busVars,
                   bgVars, fnVars, regVars>>

\* The stream loader: 204 unless isActive; else subscribeFromCurrentTurn,
\* which replays the buffer from getCurrentTurnStartIndex and registers the
\* callback for the chunks to come.
ClientSubscribes ==
    /\ client.phase = "loaded"
    /\ client' = IF InProgress
                 THEN [client EXCEPT !.phase = "subscribed",
                          !.startIndex = GetCurrentTurnStartIndex(chunks)]
                 ELSE [client EXCEPT !.phase = "closed"]
    /\ UNCHANGED <<runnerVars, dispatchVars, schedVars, streamVars, busVars,
                   bgVars, fnVars, regVars>>

NextReconnect ==
    \/ NextRunner
    \/ ClientLoads
    \/ ClientSubscribes

InitReconnectOnly ==
    /\ RunnerStart(TRUE) /\ PlainTools
    /\ InitDispatch /\ SchedIdle /\ StreamIdle /\ LibIdle

SpecReconnect == InitReconnectOnly /\ [][NextReconnect]_vars


\* ------------------------------------------------------------------------
\* EventBus
\* ------------------------------------------------------------------------
MaxEmits == 2

Members(seq) == {seq[i] : i \in DOMAIN seq}

\* Set.add: a new member goes last, a present one stays where it is.
SetAdd(seq, h) == IF h \in Members(seq) THEN seq ELSE Append(seq, h)

\* Set.delete.
SetDelete(seq, h) == SelectSeq(seq, LAMBDA x : x # h)

\* on(type, handler).
On ==
    \E t \in EventTypes : \E h \in EventHandlers :
        /\ h \notin Members(handlers[t])
        /\ handlers' = [handlers EXCEPT ![t] = SetAdd(@, h)]
        /\ UNCHANGED <<globalHandlers, emitted, delivered, runnerVars,
                       dispatchVars, schedVars, streamVars, bgVars, fnVars,
                   regVars, client>>

\* The function on() returned.
Off ==
    \E t \in EventTypes : \E h \in Members(handlers[t]) :
        /\ handlers' = [handlers EXCEPT ![t] = SetDelete(@, h)]
        /\ UNCHANGED <<globalHandlers, emitted, delivered, runnerVars,
                       dispatchVars, schedVars, streamVars, bgVars, fnVars,
                   regVars, client>>

\* onAny(handler).
OnAny ==
    \E h \in EventHandlers :
        /\ h \notin Members(globalHandlers)
        /\ globalHandlers' = SetAdd(globalHandlers, h)
        /\ UNCHANGED <<handlers, emitted, delivered, runnerVars,
                       dispatchVars, schedVars, streamVars, bgVars, fnVars,
                   regVars, client>>

\* The function onAny() returned.
OffAny ==
    \E h \in Members(globalHandlers) :
        /\ globalHandlers' = SetDelete(globalHandlers, h)
        /\ UNCHANGED <<handlers, emitted, delivered, runnerVars,
                       dispatchVars, schedVars, streamVars, bgVars, fnVars,
                   regVars, client>>

\* handler(event) with nothing around it: what it raises leaves emit.
CallHandler(out, h, kind, throwers) ==
    [log |-> Append(out.log,
                [handler |-> h, kind |-> kind, threw |-> h \in throwers]),
     raised |-> h \in throwers]

\* try { handler(event) } catch {}: the handler is invoked and what it
\* raises is dropped.
TryHandler(out, h, kind, throwers) ==
    [log |-> Append(out.log,
                [handler |-> h, kind |-> kind, threw |-> h \in throwers]),
     raised |-> FALSE]

\* for (const handler of set): in insertion order, as long as nothing has
\* left the loop.
RECURSIVE Notify(_, _, _, _)
Notify(out, list, kind, throwers) ==
    IF list = <<>> \/ out.raised THEN out
    ELSE Notify(TryHandler(out, Head(list), kind, throwers), Tail(list),
                kind, throwers)

\* emit's two loops: the handlers of the type, then the global ones.
EmitTo(type, throwers) ==
    Notify(Notify([log |-> <<>>, raised |-> FALSE], handlers[type], "type",
                  throwers),
           globalHandlers, "global", throwers)

\* emit(type, source, data, options), with the handlers that throw on
\* this event.
Emit ==
    /\ emitted.id < MaxEmits
    /\ \E type \in EventTypes : \E throwers \in SUBSET EventHandlers :
        LET out == EmitTo(type, throwers) IN
        /\ delivered' = out.log
        /\ emitted' = [id |-> emitted.id + 1, type |-> type,
                       raised |-> out.raised]
    /\ UNCHANGED <<handlers, globalHandlers, runnerVars, dispatchVars,
                   schedVars, streamVars, bgVars, fnVars,
                   regVars, client>>

NextBus ==
    \/ On
    \/ Off
    \/ OnAny
    \/ OffAny
    \/ Emit

InitBusOnly ==
    /\ RunnerIdle /\ InitDispatch /\ SchedIdle /\ StreamIdle
    /\ InitBus /\ BgIdle /\ FnIdle
    /\ RegIdle /\ ClientIdle

SpecBus == InitBusOnly /\ [][NextBus]_vars

\* ------------------------------------------------------------------------
\* Properties of one execution
\* ------------------------------------------------------------------------
ChunksOf(r, types) ==
    SelectSeq(chunks, LAMBDA c : c.round = r /\ c.type \in types)

IdsOf(seq) == [i \in 1..Len(seq) |-> seq[i].id]

EndIds(r) == IdsOf(ChunksOf(r, {"tool_call_end"}))

ToolTrail(r) == ChunksOf(r, {"tool_executing", "tool_result"})

\* Round r is over: a later model call has started, or the loop is back at
\* its top, or the generator has returned.
RoundClosed(r) ==
    r < round \/ (r = round /\ pc \in {"loop", "done", "stopped"})

\* C1: within a round the pending calls run one at a time in the order of
\* their tool_call_end chunks - the executing/result chunks alternate, the
\* k-th pair belongs to the k-th tool_call_end - and the tool-result blocks
\* of the history are in that order too.
C1_SequentialInOrder ==
    /\ \A r \in 1..round :
        LET trail == ToolTrail(r)
            ends == EndIds(r)
        IN  /\ Len(trail) <= 2 * Len(ends)
            /\ \A k \in 1..Len(trail) :
                /\ trail[k].type =
                     IF k % 2 = 1 THEN "tool_executing" ELSE "tool_result"
                /\ trail[k].id = ends[(k + 1) \div 2]
    /\ \A r \in 1..round :
        2 * r + 1 <= Len(currentMessages) =>
            /\ IdsOf(currentMessages[2 * r + 1].blocks) = EndIds(r)
            /\ \A k \in 1..Len(EndIds(r)) :
                currentMessages[2 * r + 1].blocks[k].type = "tool_result"
    /\ pc \in {"tools", "toolAwait"} =>
        IdsOf(toolResultBlocks) = SubSeq(EndIds(round), 1, Len(toolResultBlocks))

\* C1 witness: a round with two tool calls has been run and appended.
C1_Witness ==
    /\ Len(currentMessages) >= 3
    /\ Len(currentMessages[3].blocks) = 2
    /\ Len(ToolTrail(1)) = 4

ToolUsesOf(row) ==
    {j \in DOMAIN row.toolCalls : row.toolCalls[j].type = "tool_use"}

\* C3 (as stated): outside a round's tool execution, every tool_use block of
\* a persisted assistant row has exactly one tool_result block with its id
\* in the row that follows.
C3_ToolUseHasResultInNextRow ==
    pc \notin {"tools", "toolAwait"} =>
        \A i \in DOMAIN dbMessages :
            (dbMessages[i].role = "assistant" /\ ToolUsesOf(dbMessages[i]) # {}) =>
                /\ i < Len(dbMessages)
                /\ \A j \in ToolUsesOf(dbMessages[i]) :
                    Cardinality({k \in DOMAIN dbMessages[i + 1].toolCalls :
                        /\ dbMessages[i + 1].toolCalls[k].type = "tool_result"
                        /\ dbMessages[i + 1].toolCalls[k].id =
                               dbMessages[i].toolCalls[j].id}) = 1

ErrorChunks == {i \in DOMAIN chunks : chunks[i].type = "error"}

\* C4 (as stated): an error chunk is the only one and the last chunk of the
\* execution, and once it is out the execution neither streams nor runs
\* tools again.
C4_ErrorEndsExecution ==
    \A i \in ErrorChunks :
        /\ Cardinality(ErrorChunks) = 1
        /\ i = Len(chunks)
        /\ pc \in {"returned", "stopped"}

Terminal == \E i \in DOMAIN chunks : chunks[i].type \in {"done", "error"}

\* C5 (as stated): tools run only in a round that signalled pending calls;
\* a model call starts only when no pending call of the round is left; after
\* Done or Errored no chunk is emitted and no model or tool call is made.
C5_StateMachine ==
    [][/\ (pc' = "toolAwait" /\ pc # "toolAwait") =>
             ChunksOf(round, {"tool_calls_pending"}) # <<>>
       /\ (requests' # requests) =>
             \A r \in 1..round :
                 Len(ChunksOf(r, {"tool_result"})) = Len(ChunksOf(r, {"tool_call_end"}))
       /\ Terminal => (chunks' = chunks /\ requests' = requests)]_vars

\* C6: a failed tool call (unknown tool, throw, failure result) is reported
\* by a tool_result chunk with isError; the round goes on to run every other
\* pending call; the execution does not end in that round; and the next
\* model call receives the error-flagged block.
C6_ToolFailureNotFatal ==
    /\ \A i \in DOMAIN chunks :
        chunks[i].type = "tool_result" =>
            /\ (chunks[i].content \in ErrorContents) = chunks[i].isError
            /\ (chunks[i].name \notin RegisteredTools => chunks[i].isError)
    /\ \A r \in 1..round :
        ChunksOf(r, {"tool_result"}) # <<>> =>
            /\ ~(r = round /\ pc \in {"done", "stopped", "returned", "stream"})
            /\ RoundClosed(r) =>
                 IdsOf(ChunksOf(r, {"tool_result"})) = EndIds(r)
    /\ \A r \in 1..Len(requests) - 1 :
        LET fed == requests[r + 1][Len(requests[r + 1])]
            res == ChunksOf(r, {"tool_result"})
        IN  /\ fed.role = "user"
            /\ Len(fed.blocks) = Len(res)
            /\ \A k \in 1..Len(res) :
                /\ fed.blocks[k].id = res[k].id
                /\ fed.blocks[k].isError = res[k].isError
                /\ fed.blocks[k].content = res[k].content

\* C6 witness: the first of two calls failed, the second still ran, and the
\* next model call was made with the error-flagged block.
C6_Witness ==
    /\ Len(requests) = 2
    /\ Len(ChunksOf(1, {"tool_result"})) = 2
    /\ ChunksOf(1, {"tool_result"})[1].isError
    /\ ChunksOf(1, {"tool_result"})[1].content = "Error: thrown"
    /\ requests[2][Len(requests[2])].blocks[1].isError

\* ------------------------------------------------------------------------
\* Properties of the background dispatcher
\* ------------------------------------------------------------------------
NotificationsOf(t) ==
    {i \in DOMAIN originRows :
        originRows[i].role = "system" /\ originRows[i].task = t}

\* C7 (as stated): however often the spawn event of a task is delivered,
\* the task has at most one conversation and one result notification.
C7_RedeliveryIdempotent ==
    \A t \in TaskIds :
        /\ agentConvs[t] <= 1
        /\ Cardinality(NotificationsOf(t)) <= 1

\* C8 (as stated): when a run has failed - its step raised past the retries,
\* or its agent's model call failed - the task row says failed.
C8_FailedRunMarksTaskFailed ==
    \A r \in DOMAIN runs :
        (\/ runs[r].pc = "failed"
         \/ (runs[r].pc = "finished" /\ runs[r].result = "llm_error")) =>
            taskStatus[runs[r].task] = "failed"

StatusRank(st) ==
    IF st = "none" THEN 0
    ELSE IF st = "pending" THEN 1
         ELSE IF st = "running" THEN 2 ELSE 3

\* C9 (as stated): a task's status only moves forward along pending,
\* running, terminal, and a terminal status is never changed.
C9_StatusMonotonic ==
    [][\A t \in TaskIds :
          /\ StatusRank(taskStatus'[t]) >= StatusRank(taskStatus[t])
          /\ StatusRank(taskStatus[t]) = 3 => taskStatus'[t] = taskStatus[t]]_vars

EventsOf(i) == {k \in DOMAIN outbox : outbox[k].id = i}

\* C10 (as stated): a one-shot scheduled task is dispatched at most once,
\* whatever scans run later or at the same time.
C10_OneShotFiresOnce ==
    \A i \in SchedIds :
        schedRows[i].type = "one_shot" => Cardinality(EventsOf(i)) <= 1

\* Events of task i sent by the due-check of minute a.
FiringsOf(i, a) == {k \in EventsOf(i) : outbox[k].at = a}

DueIds(scan) == {scan.due[k].id : k \in DOMAIN scan.due}

AgentMissing(i) ==
    schedRows[i].agentId # "" /\ schedRows[i].agentId \notin AgentsTable

SynthesesOf(t) ==
    {i \in DOMAIN originRows :
        originRows[i].kind = "synthesis" /\ originRows[i].task = t}

\* User rows of the origin conversation newer than the task's origin message
\* and older than row k.
UserRowsBefore(t, k) == {i \in NewerUserMessages(t) : i < k}

\* C12 (as stated): no synthesized assistant turn of a task is written after
\* a user message newer than the task's origin message - whether that
\* message came before the delivery started or while synthesis was running.
C12_NoSynthesisAfterUserMovedOn ==
    \A t \in TaskIds : \A k \in SynthesesOf(t) : UserRowsBefore(t, k) = {}

C14_ConsumedToCompletion ==
    /\ [](\A e \in DOMAIN execs :
            /\ execs[e].gen # "cancelled"
            /\ Len(execs[e].chunks) = execs[e].yielded
            /\ \A k \in DOMAIN execs[e].chunks :
                execs[e].chunks[k].seq = k /\ execs[e].chunks[k].exec = e
            /\ execs[e].done <=> execs[e].gen = "returned")
    /\ \A e \in 1..MaxStreams :
        [](e \in DOMAIN execs =>
              <>(e \in DOMAIN execs /\ execs[e].gen = "returned"))

\* C14 witness: the client of an execution went away, and the generator went
\* on to yield chunks nobody was subscribed for, and returned.
C14_Witness ==
    \E e \in DOMAIN execs :
        /\ execs[e].gen = "returned"
        /\ execs[e].unheard >= 2
        /\ execs[e].chunks[Len(execs[e].chunks)].type # "done"

SubscribedAnywhere(c) == \E e \in DOMAIN execs : c \in execs[e].subscribers

\* C15 (as stated): a callback passed to subscribe while an execution of the
\* id is running, and not unsubscribed (its request is still open), has
\* received exactly the chunks of that execution so far, each once and in
\* order; passed after the execution finished, it has received the whole
\* buffer once and is not registered.
C15_SubscriberGetsEveryChunkOnce ==
    \A c \in Callbacks :
        (/\ callbacks[c].call = "subscribe"
         /\ callbacks[c].target # 0) =>
            /\ callbacks[c].received = execs[callbacks[c].target].chunks
            /\ callbacks[c].targetDone => ~SubscribedAnywhere(c)

\* Position (from 1) of the last tool_result chunk of a buffer, 0 if none.
LastResultPos(buffer) ==
    LET results == {k \in DOMAIN buffer : buffer[k].type = "tool_result"}
    IN  IF results = {} THEN 0
        ELSE CHOOSE k \in results : \A j \in results : j <= k

\* The turn boundary of a buffer: the position of the first text or
\* tool_call_start chunk after the most recent tool_result chunk; past the
\* end when there is no such chunk.
TurnBoundary(buffer) ==
    LET starts == {k \in DOMAIN buffer :
                      /\ k > LastResultPos(buffer)
                      /\ buffer[k].type \in {"text", "tool_call_start"}}
    IN  IF starts = {} THEN Len(buffer) + 1
        ELSE CHOOSE k \in starts : \A j \in starts : k <= j

\* C16 (as stated): a callback passed to subscribeFromCurrentTurn after the
\* execution completed has received nothing and is not registered; passed
\* while it ran, and not unsubscribed (its request is still open), it has
\* received exactly the chunks from the turn boundary of the buffer at the
\* call onwards.
C16_ReplayFromTurnBoundary ==
    \A c \in Callbacks :
        (callbacks[c].call = "turn" /\ callbacks[c].target # 0) =>
            LET buffer == execs[callbacks[c].target].chunks
                atCall == SubSeq(buffer, 1, callbacks[c].atCall)
            IN  IF callbacks[c].targetDone
                THEN callbacks[c].received = <<>> /\ ~SubscribedAnywhere(c)
                ELSE callbacks[c].received =
                        SubSeq(buffer, TurnBoundary(atCall), Len(buffer))

\* ------------------------------------------------------------------------
\* Reconnecting to a running AgentRunner execution
\* ------------------------------------------------------------------------

\* What subscribeFromCurrentTurn replays when called now: the runner's
\* chunks are the stream's buffer.
ReplayedNow ==
    SubSeq(chunks, GetCurrentTurnStartIndex(chunks) + 1, Len(chunks))

RowsOfRole(role) == {i \in DOMAIN dbMessages : dbMessages[i].role = role}

\* The execution is suspended at an await (on the provider's stream or on a
\* tool), where a reconnecting request can run.
AtAwait == pc \in {"stream", "toolAwait"}

\* C17 (as stated): every chunk a reconnection replays belongs to a round of
\* which no message has been persisted yet.
C17_ReplayOnlyUnpersistedRounds ==
    (AtAwait /\ conversationId) =>
        \A k \in DOMAIN ReplayedNow :
            ReplayedNow[k].round > Cardinality(RowsOfRole("assistant"))

\* C17 (amended): every chunk a reconnection replays belongs to the round in
\* progress, which is not persisted as complete - its tool-result message is
\* not in storage.
C17_ReplayOnlyIncompleteRound ==
    (AtAwait /\ conversationId) =>
        \A k \in DOMAIN ReplayedNow :
            /\ ReplayedNow[k].round = round
            /\ ReplayedNow[k].round > Cardinality(RowsOfRole("tool"))

\* C17 witness: in the second round, with the first one complete in storage,
\* a reconnection replays chunks, all of the second round.
C17_Witness ==
    /\ AtAwait /\ conversationId
    /\ round = 2
    /\ Cardinality(RowsOfRole("tool")) = 1
    /\ ReplayedNow # <<>>
    /\ \A k \in DOMAIN ReplayedNow : ReplayedNow[k].round = 2

\* ---------------------------------------------------------------------------
\* Tool registry and the active tool set
\* ---------------------------------------------------------------------------

\* C18: ToolRegistry.execute never raises. For every tool name and every
\* thing the tool's execute function may do, it returns a result: an unknown
\* name gives success = false with the not-found error, a tool that throws
\* gives success = false with the thrown error's message; so no execution
\* is ever ended by an exception out of execute, and the tool_result chunk
\* of an unknown or throwing tool is an error result.
C18_ExecuteNeverRaises ==
    /\ pc # "crashed"
    /\ \A name \in ToolNames : \A behaviour \in ToolBehaviours :
        LET result == ToolRegistryExecute(name, behaviour)
        IN  /\ ~result.raised
            /\ name \notin RegisteredTools =>
                  ~result.success /\ result.error = "not found"
            /\ name \in RegisteredTools /\ behaviour = "throw" =>
                  ~result.success /\ result.error = "thrown"
    /\ \A i \in DOMAIN chunks :
        chunks[i].type = "tool_result" =>
            /\ chunks[i].name \notin RegisteredTools =>
                  chunks[i].isError /\ chunks[i].content = "Error: not found"
            /\ chunks[i].content = "Error: thrown" => chunks[i].isError

\* An execution went on after a call to an unknown tool and after a call to
\* a tool that threw.
C18_Witness ==
    /\ \E i \in DOMAIN chunks :
        /\ chunks[i].type = "tool_result"
        /\ chunks[i].name \notin RegisteredTools
    /\ \E i \in DOMAIN chunks :
        /\ chunks[i].type = "tool_result"
        /\ chunks[i].name \in RegisteredTools
        /\ chunks[i].content = "Error: thrown"
    /\ pc = "done"

\* C19 (as stated): the tool definitions of the first model call are the
\* registered tools whose names are in the caller's allow-set.
C19_FirstOfferIsAllowSet ==
    offered # <<>> => offered[1] = RegisteredTools \cap paramsTools

\* C19 (amended): the tool definitions of the first model call are the
\* registered tools whose names are in the caller's allow-set or among the
\* base tools, which are always injected.
C19_FirstOfferIsAllowSetAndBase ==
    offered # <<>> =>
        offered[1] = RegisteredTools \cap (paramsTools \cup BaseToolNames)

\* A first model call was made for a caller who allowed nothing, and a
\* registered tool outside the base tools was withheld from it.
C19_Witness ==
    /\ offered # <<>>
    /\ paramsTools = {}
    /\ "web_fetch" \in RegisteredTools \ offered[1]
    /\ "search_tools" \in offered[1]

\* The tools returned by the successful search_tools calls so far: for each
\* tool_result chunk of search_tools that is not an error, what the search
\* finds for the query of that call.
Discovered ==
    UNION {SearchTools(chunks[j].content) :
           j \in {k \in DOMAIN chunks :
                    /\ chunks[k].type = "tool_call_end"
                    /\ \E i \in DOMAIN chunks :
                        /\ chunks[i].type = "tool_result"
                        /\ chunks[i].name = "search_tools"
                        /\ ~chunks[i].isError
                        /\ chunks[i].id = chunks[k].id}}

\* C20: once a search_tools call has succeeded, the tools it returned are
\* in the active tool set from then on, and every later model call is
\* offered them.
C20_DiscoveredToolsStayActive ==
    [][/\ Discovered' \subseteq activeToolNames'
       /\ offered' # offered =>
            Discovered' \subseteq offered'[Len(offered')]]_vars

\* ---------------------------------------------------------------------------
\* The done chunk and the persisted rows of an execution
\* ---------------------------------------------------------------------------
DoneChunks == {i \in DOMAIN chunks : chunks[i].type = "done"}

\* The model call of round r ended with an error chunk instead of its usage.
Failed(r) == ChunksOf(r, {"error"}) # <<>>

\* Round r left tool calls pending: the model signalled tool_calls_pending
\* and at least one tool call was completed in the round.
LeftPending(r) ==
    /\ ChunksOf(r, {"tool_calls_pending"}) # <<>>
    /\ ChunksOf(r, {"tool_call_end"}) # <<>>

\* The runner has acted on the outcome of the latest model call.
Decided == round >= 1 /\ pc \notin {"stream", "returned"}

\* C21: done is emitted exactly when a model round ends with no pending
\* tool calls: once the runner has acted on a round, there is a done chunk
\* if and only if the latest round ended, without failing, with no tool
\* calls pending. There is at most one done chunk, it is the last chunk, and
\* its usage is the sum of the usage reported by the model calls.
C21_DoneWhenRoundEndsQuiet ==
    /\ Cardinality(DoneChunks) <= 1
    /\ \A i \in DoneChunks :
        /\ i = Len(chunks)
        /\ chunks[i].usage = SumOf(reported)
    /\ ~Decided => DoneChunks = {}
    /\ Decided =>
        (DoneChunks # {} <=> (~Failed(round) /\ ~LeftPending(round)))

\* The rows the execution persisted: every row of the conversation that is
\* not a user row (those are inserted by the chat requests).
OwnRow(row) == row.role # "user"

OwnRows == SelectSeq(dbMessages, OwnRow)

\* The rounds in which tools were run.
ToolRounds == {r \in 1..round : ChunksOf(r, {"tool_executing"}) # <<>>}

BlockIds(blocks, type) ==
    {blocks[i].id : i \in {j \in DOMAIN blocks : blocks[j].type = type}}

\* C22: an execution with a conversation id that ran k tool rounds and
\* finished has persisted exactly 2k + 1 rows: per tool round an assistant
\* row with tool_use blocks, then a tool row with the results of those
\* blocks; last, one assistant row without tool calls.
C22_RowsPerExecution ==
    (pc = "done" /\ conversationId) =>
        LET k == Cardinality(ToolRounds) IN
        /\ Len(OwnRows) = 2 * k + 1
        /\ \A j \in 1..k :
            /\ OwnRows[2 * j - 1].role = "assistant"
            /\ BlockIds(OwnRows[2 * j - 1].toolCalls, "tool_use") # {}
            /\ OwnRows[2 * j].role = "tool"
            /\ BlockIds(OwnRows[2 * j].toolCalls, "tool_result") =
                   BlockIds(OwnRows[2 * j - 1].toolCalls, "tool_use")
        /\ OwnRows[2 * k + 1].role = "assistant"
        /\ OwnRows[2 * k + 1].toolCalls = <<>>

\* An execution finished after a tool round, while another request wrote
\* to its conversation.
C22_Witness ==
    /\ pc = "done"
    /\ conversationId
    /\ Cardinality(ToolRounds) >= 1
    /\ foreign >= 1
    /\ Len(OwnRows) = 3

\* ---------------------------------------------------------------------------
\* EventBus
\* ---------------------------------------------------------------------------

\* C23: every emit invokes each handler subscribed to the event's type and
\* then each global handler, exactly once each and in the order they were
\* registered, whichever of them throw; and emit returns, it never raises.
C23_EmitReachesEveryHandler ==
    [][emitted'.id # emitted.id =>
         /\ ~emitted'.raised
         /\ Len(delivered') =
                Len(handlers[emitted'.type]) + Len(globalHandlers)
         /\ \A i \in 1..Len(handlers[emitted'.type]) :
              /\ delivered'[i].handler = handlers[emitted'.type][i]
              /\ delivered'[i].kind = "type"
         /\ \A i \in 1..Len(globalHandlers) :
              LET d == delivered'[Len(handlers[emitted'.type]) + i] IN
              /\ d.handler = globalHandlers[i]
              /\ d.kind = "global"]_vars

\* An emit whose first handler threw went on to a second handler of the
\* type and to a global handler, and returned.
C23_Witness ==
    /\ emitted.id >= 1
    /\ ~emitted.raised
    /\ Len(delivered) >= 3
    /\ delivered[1].threw
    /\ delivered[2].kind = "type"
    /\ delivered[Len(delivered)].kind = "global"

\* ---------------------------------------------------------------------------
\* Background execution attempts
\* ---------------------------------------------------------------------------
RowsOfAttempt(a) ==
    {i \in DOMAIN taskRows : taskRows[i].id = attempts[a].taskId}

\* C24: every background execution attempt that has passed its setup step
\* has exactly one row in the tasks table, and the row's status records the
\* attempt: running while it executes, completed when it is done.
C24_OneTaskRowPerAttempt ==
    \A a \in DOMAIN attempts :
        attempts[a].pc # "setup" =>
            /\ Cardinality(RowsOfAttempt(a)) = 1
            /\ \A i \in RowsOfAttempt(a) :
                /\ attempts[a].pc \in {"execute", "final"} =>
                      taskRows[i].status = "running"
                /\ attempts[a].pc = "done" =>
                      taskRows[i].status = "completed"

\* C25: a recurring task is dispatched only at minutes that match its cron
\* expression: every event the scheduler sent for a recurring task was sent
\* by a scan at a matching minute.
C25_DispatchedOnlyWhenCronMatches ==
    \A e \in DOMAIN outbox :
        schedRows[outbox[e].id].type = "recurring" =>
            CronMatches(schedRows[outbox[e].id].schedule, outbox[e].at)

\* The event a scan sent for the task of a due row, if any.
EventsFor(scan, d) ==
    {k \in DOMAIN outbox : outbox[k].id = d.id /\ outbox[k].at = scan.at}

EventNameFor(d) ==
    IF d.agentId # "" THEN "megabot/agent.spawn"
    ELSE "megabot/scheduled-task.run"

UserMessages(msgs) == {i \in DOMAIN msgs : msgs[i].role = "user"}

LastUserMessage(msgs) ==
    msgs[CHOOSE i \in UserMessages(msgs) :
            \A j \in UserMessages(msgs) : j <= i]

Truncated == TotalChars(callArgs.msgs) > callArgs.maxChars

\* C27: for a history with a user-role message, whatever the budget, what
\* truncateHistory returns is not empty and contains the last user-role
\* message of the history.
C27_KeepsLastUserMessage ==
    (callResult.done /\ callArgs.fn = "truncateHistory"
        /\ UserMessages(callArgs.msgs) # {}) =>
        /\ callResult.value # <<>>
        /\ LastUserMessage(callArgs.msgs) \in Members(callResult.value)

\* C28: when truncateHistory has truncated, what it returns starts with a
\* user-role message and every tool_result message in it comes right after
\* its tool_use message. (An empty result is let pass here: it is the
\* subject of C27.)
C28_TruncatedHistoryReplayable ==
    (callResult.done /\ callArgs.fn = "truncateHistory" /\ Truncated
        /\ callResult.value # <<>>) =>
        /\ callResult.value[1].role = "user"
        /\ \A i \in DOMAIN callResult.value :
            callResult.value[i].kind = "tool_result" =>
                /\ i > 1
                /\ callResult.value[i - 1].kind = "tool_use"
                /\ callResult.value[i - 1].idx = callResult.value[i].idx - 1

\* The model part the caller asked for: the whole string for a bare id,
\* what follows the first ":" otherwise.
WantedModel(modelId) ==
    IF Len(modelId) > 1 THEN Tail(modelId) ELSE modelId

WantedProvider(modelId) ==
    IF Len(modelId) > 1 THEN modelId[1] ELSE ""

\* The (plugin, model) pairs whose model id is exactly the one asked for,
\* within the named provider when one is named.
ExactMatches(llmPlugins, modelId) ==
    {RouteResult(llmPlugins[i], llmPlugins[i].models[j]) :
        <<i, j>> \in {ij \in (DOMAIN llmPlugins) \X (1..MaxModels) :
            /\ ij[2] \in DOMAIN llmPlugins[ij[1]].models
            /\ <<llmPlugins[ij[1]].models[ij[2]].id>> = WantedModel(modelId)
            /\ WantedProvider(modelId) \in {"", llmPlugins[ij[1]].id}}}

HasTier(plugin, tier) == \E j \in DOMAIN plugin.models :
                            plugin.models[j].tier = tier

FirstOfTier(llmPlugins, tier) ==
    LET i == CHOOSE i \in DOMAIN llmPlugins :
                /\ HasTier(llmPlugins[i], tier)
                /\ \A k \in 1..(i - 1) : ~HasTier(llmPlugins[k], tier)
        j == CHOOSE j \in DOMAIN llmPlugins[i].models :
                /\ llmPlugins[i].models[j].tier = tier
                /\ \A k \in 1..(j - 1) : llmPlugins[i].models[k].tier # tier
    IN  RouteResult(llmPlugins[i], llmPlugins[i].models[j])

\* C29: with a provider registered, route answers a given modelId with an
\* exactly matching model (of the named provider when one is named) and
\* raises when there is none; without a modelId it answers with the first
\* model of the requested tier (standard when none is requested) of the
\* first provider that has one, and when no provider has one with the
\* first model of the first provider.
C29_RouteStrictPriority ==
    (callResult.done /\ callArgs.fn = "route"
        /\ callArgs.llmPlugins # <<>>) =>
        LET ps == callArgs.llmPlugins
            m == callArgs.params.modelId
            tier == IF callArgs.params.tier = "undefined" THEN "standard"
                    ELSE callArgs.params.tier
            r == callResult.value
        IN  IF ModelIdGiven(m)
            THEN IF ExactMatches(ps, m) = {} THEN r.raised
                 ELSE r \in ExactMatches(ps, m)
            ELSE IF \E i \in DOMAIN ps : HasTier(ps[i], tier)
                 THEN r = FirstOfTier(ps, tier)
                 ELSE ps[1].models # <<>> =>
                        r = RouteResult(ps[1], ps[1].models[1])

\* The words of a query that search looks for: between its blanks, longer
\* than 2 characters, in lower case; the same word twice counts twice.
LongWords(query) ==
    {<<i, j>> \in (1..Len(query)) \X (1..Len(query)) :
        /\ j - i >= 2
        /\ \A k \in i..j : query[k] # " "
        /\ i > 1 => query[i - 1] = " "
        /\ j < Len(query) => query[j + 1] = " "}

WordAt(query, ij) == ToLowerCase(SubSeq(query, ij[1], ij[2]))

\* A word matches a tool when it occurs in its name, its description or
\* one of its keywords, whatever the case.
WordMatches(w, tool) ==
    \/ Includes(ToLowerCase(tool.name), w)
    \/ Includes(ToLowerCase(tool.description), w)
    \/ \E k \in DOMAIN tool.keywords :
            Includes(ToLowerCase(tool.keywords[k]), w)

Score(tool, query) ==
    Cardinality({ij \in LongWords(query) :
                    WordMatches(WordAt(query, ij), tool)})

Position(tools, tool) == CHOOSE i \in DOMAIN tools : tools[i] = tool

\* C30: for a query with a word longer than 2 characters, search returns
\* each registered tool matched by at least one of these words once and no
\* other tool, a tool with more matching words before one with fewer, and
\* tools with as many matching words in the order of their registration.
C30_SearchRanksByMatchingWords ==
    (callResult.done /\ callArgs.fn = "search"
        /\ LongWords(callArgs.query) # {}) =>
        LET tools == callArgs.tools
            q == callArgs.query
            r == callResult.value
        IN  /\ {r[i] : i \in DOMAIN r} =
                    {tools[i] : i \in {k \in DOMAIN tools :
                                          Score(tools[k], q) > 0}}
            /\ \A i, j \in DOMAIN r : r[i] = r[j] => i = j
            /\ \A i, j \in DOMAIN r : i < j =>
                \/ Score(r[i], q) > Score(r[j], q)
                \/ /\ Score(r[i], q) = Score(r[j], q)
                   /\ Position(tools, r[i]) < Position(tools, r[j])

\* A search that left a tool out, moved a tool in front of one registered
\* before it, and returned two tools of equal score.
C30_Witness ==
    /\ callResult.done /\ callArgs.fn = "search"
    /\ LongWords(callArgs.query) # {}
    /\ Len(callResult.value) < Len(callArgs.tools)
    /\ \E i, j \in DOMAIN callResult.value :
        /\ i < j
        /\ Position(callArgs.tools, callResult.value[i]) >
                Position(callArgs.tools, callResult.value[j])
    /\ \E i, j \in DOMAIN callResult.value :
        /\ i < j
        /\ Score(callResult.value[i], callArgs.query) =
                Score(callResult.value[j], callArgs.query)

\* C31: a register call for a name that is taken raises and leaves the
\* tools Map as it was; a call for a free name adds the tool.
C31_DuplicateToolRejected ==
    [][lastCall'.op = "registerTool" =>
        IF HasTool(toolMap, lastCall'.name)
        THEN lastCall'.raised /\ toolMap' = toolMap
        ELSE /\ ~lastCall'.raised
             /\ toolMap' = Append(toolMap, [name |-> lastCall'.name,
                                        pluginId |-> lastCall'.pluginId])]_vars

\* A register call that raised: the tool of that name is another plugin's.
C31_Witness ==
    /\ lastCall.op = "registerTool" /\ lastCall.raised
    /\ \E i \in DOMAIN toolMap :
        /\ toolMap[i].name = lastCall.name
        /\ toolMap[i].pluginId # lastCall.pluginId

\* C38: a PluginRegistry.register call that raises leaves the plugins Map
\* and the tools Map as they were before the call.
C38_FailedRegisterChangesNothing ==
    [][(lastCall'.op = "register" /\ lastCall'.raised) =>
        (pluginMap' = pluginMap /\ toolMap' = toolMap)]_vars

\* C39: PluginRegistry.unregister(id) of a registered plugin takes out of
\* the tools Map the tools that plugin registered and leaves every other
\* tool where it was.
C39_UnregisterRemovesOwnToolsOnly ==
    [][(lastCall'.op = "unregister" /\ HasPlugin(pluginMap, lastCall'.plugin.id)) =>
        toolMap' = SelectSeq(toolMap,
                       LAMBDA t : t.pluginId # lastCall'.plugin.id)]_vars

\* C32: a query without a word longer than 2 characters (empty, blank, or
\* short words only) is answered with every registered tool, in
\* registration order; a query with such a word that matches no tool is
\* answered with the empty list.
C32_SearchFallbacks ==
    (callResult.done /\ callArgs.fn = "search") =>
        /\ LongWords(callArgs.query) = {} =>
                callResult.value = callArgs.tools
        /\ (/\ LongWords(callArgs.query) # {}
            /\ \A i \in DOMAIN callArgs.tools :
                    Score(callArgs.tools[i], callArgs.query) = 0) =>
                callResult.value = <<>>

\* A query of one short word that occurs in a registered tool's name and
\* not in another's: every tool came back.
C32_Witness ==
    /\ callResult.done /\ callArgs.fn = "search"
    /\ callArgs.query = Fs
    /\ Len(callArgs.tools) >= 2
    /\ \E i, j \in DOMAIN callArgs.tools :
        /\ Includes(HaystackOf(callArgs.tools[i]), Fs)
        /\ ~Includes(HaystackOf(callArgs.tools[j]), Fs)
    /\ callResult.value = callArgs.tools

\* C35: with no LLM plugin registered, route raises, whatever tier and
\* modelId it is called with; the call is over with that one error.
C35_RouteFailsWithoutProviders ==
    (callResult.done /\ callArgs.fn = "route"
        /\ callArgs.llmPlugins = <<>>) =>
        callResult.value = Throw

\* route was called with a model id and a tier on an empty registry.
C35_Witness ==
    /\ callResult.done /\ callArgs.fn = "route"
    /\ callArgs.llmPlugins = <<>>
    /\ ModelIdGiven(callArgs.params.modelId)
    /\ callArgs.params.tier = "fast"
    /\ callResult.value.raised

\* C33: isActive(id) is true exactly when some execution started for the
\* conversation is running (started, not yet completed).
C33_ActiveIffRunning == IsActive <=> Running # {}

\* C34: the buffer of an execution that has completed is the registered
\* entry of its conversation until its own cleanup timer fires.
C34_BufferKeptUntilTTL ==
    \A e \in DOMAIN execs :
        (execs[e].done /\ execs[e].timer # "fired") => streams = e

\* C36: the entry of the most recently started execution stays registered
\* while that execution runs and, once it has completed, until its own
\* cleanup timer fires.
C36_LatestEntryStaysRegistered ==
    Len(execs) # 0 =>
        (execs[Len(execs)].timer \in {"none", "armed"} =>
            streams = Len(execs))

\* C37: when the registry is asked to execute a pending tool call, a
\* registered tool it names is in the execution's active tool set at that
\* moment; a call naming a registered tool outside the set does not run it.
C37_ExecutedToolsAreActive ==
    [][pc = "toolAwait" =>
        LET tc == PendingAt(pendingToolCalls, tcIndex)
        IN  tc.name \in RegisteredTools => tc.name \in activeToolNames]_vars

\* The rows the page loaded, and how many of them have a given role.
LoadedRows(role) ==
    Cardinality({i \in 1..client.rows : dbMessages[i].role = role})

\* A chunk is reflected in what the page loaded when the row written for
\* its round is among the loaded rows: the assistant row for text and tool
\* call chunks, the tool row for tool results.
Reflected(chunk) ==
    IF chunk.type = "tool_result"
    THEN LoadedRows("tool") >= chunk.round
    ELSE LoadedRows("assistant") >= chunk.round

\* C40: for a page that loaded the messages and then subscribed from the
\* current turn while the execution was in progress, every text, tool call
\* and tool result chunk yielded so far is in a loaded row or at or after
\* the index the replay started from (replayed, or delivered live).
C40_ReconnectMissesNothing ==
    client.phase = "subscribed" =>
        \A k \in DOMAIN chunks :
            chunks[k].type \in {"text", "tool_call_start", "tool_call_end",
                                "tool_result"} =>
                k > client.startIndex \/ Reflected(chunks[k])

====
